---- MODULE Spec2Model ----
(***************************************************************************)
(* Model of dicom_verifier/dicom_deface_verifier.py: the batch driver      *)
(* (main), the per-subject pipeline (DefacingVerifier.verify_subject), the *)
(* verification gate (_check_pass) and the mask geometry (clip_to_roi,     *)
(* surface_dsc, hd95_dt).                                                  *)
(*                                                                         *)
(* Floats are modelled as records [inf, v]: v is the value in hundredths   *)
(* (0.80 is 80, 30.00 is 3000), inf marks float('inf').  Masks are sets of *)
(* voxels <<x, y, z>> of a bounded grid; spacings and distances are whole  *)
(* millimetres and distances are kept squared, so no square root is taken. *)
(***************************************************************************)
EXTENDS Integers, Sequences, FiniteSets, TLC

VARIABLES
    \* ---- main() and DefacingVerifier.verify_subject --------------------
    subjects,      \* main: the discovered subject names, in iteration order
    mainPc,        \* main: position of the batch driver
    i,             \* main: 1-based index of the subject of the for loop
    all_results,   \* main: the records collected so far
    success,       \* main: counter
    failed,        \* main: counter
    exitStatus,    \* what sys.exit(main()) hands to the OS (1 for a traceback)
    vpc,           \* verify_subject: position inside the current call
    inputs,        \* which of the subject's three inputs exist on disk
    temp_dir,      \* self.temp_dir: 0 is None, n > 0 the directory of run n
    created,       \* the directory the current call got from mkdtemp (0: none)
    dirs,          \* the working directories that exist on disk
    calls,         \* collaborator invocations of the current call, per model
    predOutcome,   \* outcome of the Dataset804 prediction in the current call
    fgOutcome,     \* outcome of the Dataset803 prediction in the current call
    fgSource,      \* which branch of get_foreground_mask produced FG
    result,        \* verify_subject's return value: <<>> is None, <<r>> a dict
    \* ---- the gate as a pure function -----------------------------------
    gate,
    \* ---- the surface metrics as pure functions -------------------------
    surf,
    \* ---- the ROI builder as a pure function ----------------------------
    roi,
    \* ---- the shape of the arrays of the run in hand --------------------
    shape,
    \* ---- the intensity normalizer and the masked PSNR ------------------
    norm,
    \* ---- the data path of verify_subject -------------------------------
    pipe,
    \* ---- two verify_subject runs on one DefacingVerifier ---------------
    conc,
    \* ---- the two similarity metrics on two image pairs and a region ----
    sim

batchVars == <<subjects, mainPc, i, all_results, success, failed, exitStatus>>
subjVars  == <<vpc, inputs, temp_dir, created, dirs, calls, predOutcome,
               fgOutcome, fgSource, result>>
pureVars  == <<gate, surf, roi, shape, norm, pipe, conc, sim>>
vars      == <<batchVars, subjVars, pureVars>>

(***************************************************************************)
(* Bounds of the model.                                                    *)
(***************************************************************************)
MaxSubjects == 2
GridX == 3
GridY == 3
GridZ == 3

(***************************************************************************)
(* Floats.                                                                 *)
(***************************************************************************)
Fin(v) == [inf |-> FALSE, v |-> v]
PosInf == [inf |-> TRUE, v |-> 0]

\* a <= b on floats, with a and b finite or +infinity
FLe(a, b) == IF a.inf THEN b.inf ELSE (b.inf \/ a.v <= b.v)
FGe(a, b) == FLe(b, a)

(***************************************************************************)
(* DefacingVerifier.TARGETS, in hundredths.                                *)
(***************************************************************************)
TARGETS ==
    [surface_dsc |-> Fin(80), hd95_mm |-> Fin(3000),
     ssim_def |-> Fin(80), psnr_def_db |-> Fin(1000)]

_check_pass_ssim_flipped(dsc, hd95, ssim, psnr) ==
    /\ FGe(dsc, TARGETS.surface_dsc)
    /\ FLe(hd95, TARGETS.hd95_mm)
    /\ FGe(ssim, TARGETS.ssim_def)
    /\ FLe(psnr, TARGETS.psnr_def_db)

_check_pass_surface_only(dsc, hd95, ssim, psnr) ==
    /\ FGe(dsc, TARGETS.surface_dsc)
    /\ FLe(hd95, TARGETS.hd95_mm)

_check_pass(dsc, hd95, ssim, psnr) ==
    /\ FGe(dsc, TARGETS.surface_dsc)
    /\ FLe(hd95, TARGETS.hd95_mm)
    /\ FLe(ssim, TARGETS.ssim_def)
    /\ FLe(psnr, TARGETS.psnr_def_db)

(***************************************************************************)
(* The outcomes of one run of the external collaborator                    *)
(* (_prepare_single_input, then _run_nnunet_predict, then the load of its  *)
(* prediction).  "missing_model" is raised by _find_model_root and by the  *)
(* fold lookup before subprocess.run is reached; "exception" is any other  *)
(* exception of the stage (the copy of the input, the load of the output). *)
(***************************************************************************)
CollabFailures == {"nonzero_exit", "timeout", "missing_model", "no_output", "exception"}
CollabOutcomes == {"ok"} \cup CollabFailures
\* the outcomes in which subprocess.run was entered
Invoked(o) == o \in {"ok", "nonzero_exit", "timeout", "no_output"}

(***************************************************************************)
(* The metric values a record can carry.  The pipeline's metric stage is a *)
(* pure function of the loaded volumes; here its four results are inputs.  *)
(***************************************************************************)
DscValues  == {Fin(0), Fin(100)}
Hd95Values == {Fin(0), Fin(3100), PosInf}
SsimValues == {Fin(50), Fin(100)}
PsnrValues == {Fin(500), PosInf}

Record(s, dsc, hd95, ssim_def, psnr_def) ==
    [subject |-> s, surface_dsc |-> dsc, hd95_mm |-> hd95,
     ssim_defaced |-> ssim_def, psnr_defaced_db |-> psnr_def,
     passed |-> _check_pass(dsc, hd95, ssim_def, psnr_def)]

NoInputs == [nii |-> FALSE, mask |-> FALSE, raw |-> FALSE]
NoCalls  == [pred804 |-> 0, fg803 |-> 0]

IdleGate == [done |-> FALSE, dsc |-> Fin(0), hd95 |-> Fin(0), ssim |-> Fin(0),
             psnr |-> Fin(0), passed |-> FALSE]
IdleSurf == [phase |-> "idle"]
IdleRoi  == [phase |-> "idle"]
IdleNorm == [phase |-> "idle"]
IdlePipe == [stage |-> "idle"]
IdleConc == [phase |-> "idle"]
IdleSim  == [phase |-> "idle"]

(***************************************************************************)
(* main(), from the discovered subject list on (lines 661-701).            *)
(***************************************************************************)
Init ==
    /\ \E n \in 0..MaxSubjects : subjects = [k \in 1..n |-> k]
    /\ mainPc = "discovered"
    /\ i = 0
    /\ all_results = <<>>
    /\ success = 0
    /\ failed = 0
    /\ exitStatus = 0
    /\ vpc = "idle"
    /\ inputs = NoInputs
    /\ temp_dir = 0
    /\ created = 0
    /\ dirs = {}
    /\ calls = NoCalls
    /\ predOutcome = "none"
    /\ fgOutcome = "none"
    /\ fgSource = "none"
    /\ result = <<>>
    /\ gate = IdleGate
    /\ surf = IdleSurf
    /\ roi = IdleRoi
    /\ shape = <<GridX, GridY, GridZ>>
    /\ norm = IdleNorm
    /\ pipe = IdlePipe
    /\ conc = IdleConc
    /\ sim = IdleSim

\* lines 661-663: no subject found, return 1
MainNoSubjects ==
    /\ mainPc = "discovered"
    /\ subjects = <<>>
    /\ mainPc' = "exited"
    /\ exitStatus' = 1
    /\ UNCHANGED <<subjects, i, all_results, success, failed, subjVars, pureVars>>

\* lines 667-670: the verifier is constructed (temp_dir = None), counters zeroed
MainConstruct ==
    /\ mainPc = "discovered"
    /\ subjects # <<>>
    /\ mainPc' = "loop"
    /\ i' = 1
    /\ all_results' = <<>>
    /\ success' = 0
    /\ failed' = 0
    /\ temp_dir' = 0
    /\ UNCHANGED <<subjects, exitStatus, vpc, inputs, created, dirs, calls,
                   predOutcome, fgOutcome, fgSource, result, pureVars>>

\* lines 672-675: the next subject's verify_subject call is entered
MainCall ==
    /\ mainPc = "loop"
    /\ i <= Len(subjects)
    /\ mainPc' = "in_call"
    /\ vpc' = "check_inputs"
    /\ inputs' = NoInputs
    /\ created' = 0
    /\ calls' = NoCalls
    /\ predOutcome' = "none"
    /\ fgOutcome' = "none"
    /\ fgSource' = "none"
    /\ result' = <<>>
    /\ UNCHANGED <<subjects, i, all_results, success, failed, exitStatus,
                   temp_dir, dirs, pureVars>>

\* lines 677-681: the call returned; count it and move on
MainCollect ==
    /\ mainPc = "in_call"
    /\ vpc = "returned"
    /\ IF result # <<>>
         THEN /\ all_results' = Append(all_results, result[1])
              /\ success' = success + 1
              /\ failed' = failed
         ELSE /\ failed' = failed + 1
              /\ UNCHANGED <<all_results, success>>
    /\ i' = i + 1
    /\ mainPc' = "loop"
    /\ vpc' = "idle"
    /\ UNCHANGED <<subjects, exitStatus, inputs, temp_dir, created, dirs, calls,
                   predOutcome, fgOutcome, fgSource, result, pureVars>>

(***************************************************************************)
(* save_results_to_excel (lines 495-593).  The workbook is created without *)
(* the nan_inf_to_errors option, and xlsxwriter's write() of a float that  *)
(* is infinite raises TypeError; round(inf, 2) is inf.  The two columns    *)
(* that can carry +infinity are hd95_mm (line 568) and psnr_defaced_db     *)
(* (line 584).                                                             *)
(***************************************************************************)
save_results_to_excel_raises(results) ==
    \E k \in 1..Len(results) :
        results[k].hd95_mm.inf \/ results[k].psnr_defaced_db.inf

\* lines 683-701: the summary, the report, the return value.  An exception
\* of the report writer is not caught: the interpreter prints the traceback
\* and exits with status 1.
MainSummary ==
    /\ mainPc = "loop"
    /\ i > Len(subjects)
    /\ IF all_results # <<>> /\ save_results_to_excel_raises(all_results)
         THEN /\ mainPc' = "crashed"
              /\ exitStatus' = 1
         ELSE /\ mainPc' = "exited"
              /\ exitStatus' = IF failed = 0 THEN 0 ELSE 1
    /\ UNCHANGED <<subjects, i, all_results, success, failed, subjVars, pureVars>>

(***************************************************************************)
(* DefacingVerifier.verify_subject (lines 360-466), one action per stage.  *)
(***************************************************************************)
InputsPresent_mask_unchecked(e) == e.nii /\ e.raw

\* lines 370, 374, 382: the three existence checks
InputsPresent(e) == e.nii /\ e.mask /\ e.raw

\* lines 366-386: look the inputs up; return None when one is missing
VsCheckInputs ==
    /\ mainPc = "in_call"
    /\ vpc = "check_inputs"
    /\ \E e \in [nii : BOOLEAN, mask : BOOLEAN, raw : BOOLEAN] :
          /\ inputs' = e
          /\ IF InputsPresent(e)
               THEN vpc' = "mkdtemp" /\ result' = result
               ELSE vpc' = "returned" /\ result' = <<>>
    /\ UNCHANGED <<batchVars, temp_dir, created, dirs, calls, predOutcome,
                   fgOutcome, fgSource, pureVars>>

\* line 388: tempfile.mkdtemp, before the try statement.  It either makes a
\* fresh directory or raises OSError; nothing in verify_subject or in main
\* catches that, so the process ends with a traceback (status 1).
VsMkdtemp ==
    /\ mainPc = "in_call"
    /\ vpc = "mkdtemp"
    /\ \/ /\ temp_dir' = i
          /\ created' = i
          /\ dirs' = dirs \cup {i}
          /\ vpc' = "convert"
          /\ UNCHANGED <<mainPc, exitStatus>>
       \/ /\ vpc' = "raised"
          /\ mainPc' = "crashed"
          /\ exitStatus' = 1
          /\ UNCHANGED <<temp_dir, created, dirs>>
    /\ UNCHANGED <<subjects, i, all_results, success, failed, inputs, calls,
                   predOutcome, fgOutcome, fgSource, result, pureVars>>

\* lines 391-399: dcm2nii.  "failed": the converter exits non-zero or leaves
\* no file (return None at line 397); "exception": anything raised in the
\* stage (the converter is not installed, mkdir fails), caught at line 459.
VsConvert ==
    /\ mainPc = "in_call"
    /\ vpc = "convert"
    /\ \E o \in {"ok", "failed", "exception"} :
          IF o = "ok"
            THEN vpc' = "predict" /\ result' = result
            ELSE vpc' = "finally" /\ result' = <<>>
    /\ UNCHANGED <<batchVars, inputs, temp_dir, created, dirs, calls,
                   predOutcome, fgOutcome, fgSource, pureVars>>

VsPredict_retry ==
    /\ mainPc = "in_call"
    /\ vpc = "predict"
    /\ \E o \in CollabOutcomes :
          /\ predOutcome' = o
          /\ calls' = [calls EXCEPT !.pred804 = @ + (IF Invoked(o) THEN 1 ELSE 0)]
          /\ IF o = "ok"
               THEN vpc' = "foreground" /\ result' = result
               ELSE IF calls.pred804 = 0
                      THEN vpc' = "predict" /\ result' = result
                      ELSE vpc' = "finally" /\ result' = <<>>
    /\ UNCHANGED <<batchVars, inputs, temp_dir, created, dirs, fgOutcome,
                   fgSource, pureVars>>

\* lines 401-411: the removal-region prediction (Dataset804) and the load of
\* the candidate volume.  Any failure raises and is caught at line 459.
VsPredict ==
    /\ mainPc = "in_call"
    /\ vpc = "predict"
    /\ \E o \in CollabOutcomes :
          /\ predOutcome' = o
          /\ calls' = [calls EXCEPT !.pred804 = @ + (IF Invoked(o) THEN 1 ELSE 0)]
          /\ IF o = "ok"
               THEN vpc' = "foreground" /\ result' = result
               ELSE vpc' = "finally" /\ result' = <<>>
    /\ UNCHANGED <<batchVars, inputs, temp_dir, created, dirs, fgOutcome,
                   fgSource, pureVars>>

VsForeground_fatal ==
    /\ mainPc = "in_call"
    /\ vpc = "foreground"
    /\ \E o \in CollabOutcomes :
          /\ fgOutcome' = o
          /\ calls' = [calls EXCEPT !.fg803 = @ + (IF Invoked(o) THEN 1 ELSE 0)]
          /\ IF o = "ok"
               THEN fgSource' = "collab" /\ vpc' = "load_keep" /\ result' = result
               ELSE fgSource' = "none" /\ vpc' = "finally" /\ result' = <<>>
    /\ UNCHANGED <<batchVars, inputs, temp_dir, created, dirs, predOutcome,
                   pureVars>>

\* line 413, get_foreground_mask (lines 200-220): the Dataset803 prediction
\* inside try; every exception selects the threshold heuristic instead.
VsForeground ==
    /\ mainPc = "in_call"
    /\ vpc = "foreground"
    /\ \E o \in CollabOutcomes :
          /\ fgOutcome' = o
          /\ calls' = [calls EXCEPT !.fg803 = @ + (IF Invoked(o) THEN 1 ELSE 0)]
          /\ fgSource' = IF o = "ok" THEN "collab" ELSE "fallback"
    /\ vpc' = "load_keep"
    /\ UNCHANGED <<batchVars, inputs, temp_dir, created, dirs, predOutcome,
                   result, pureVars>>

\* line 414: the kept mask is loaded and resampled; an exception is caught
\* at line 459
VsLoadKeep ==
    /\ mainPc = "in_call"
    /\ vpc = "load_keep"
    /\ \E ok \in BOOLEAN :
          IF ok THEN vpc' = "metrics" /\ result' = result
                ELSE vpc' = "finally" /\ result' = <<>>
    /\ UNCHANGED <<batchVars, inputs, temp_dir, created, dirs, calls,
                   predOutcome, fgOutcome, fgSource, pureVars>>

\* lines 416-457: regions, ROI, the four metrics, the gate, the record; or
\* an exception of the stage, caught at line 459
VsMetrics ==
    /\ mainPc = "in_call"
    /\ vpc = "metrics"
    /\ \/ \E dsc \in DscValues, hd95 \in Hd95Values,
             ssim_def \in SsimValues, psnr_def \in PsnrValues :
             result' = <<Record(subjects[i], dsc, hd95, ssim_def, psnr_def)>>
       \/ result' = <<>>
    /\ vpc' = "finally"
    /\ UNCHANGED <<batchVars, inputs, temp_dir, created, dirs, calls,
                   predOutcome, fgOutcome, fgSource, pureVars>>

\* lines 463-466: shutil.rmtree(..., ignore_errors=True) removes the tree
\* or, when a removal fails, leaves it and reports nothing; self.temp_dir
\* is reset either way
VsFinally ==
    /\ mainPc = "in_call"
    /\ vpc = "finally"
    /\ IF temp_dir # 0 /\ temp_dir \in dirs
         THEN /\ \E removed \in BOOLEAN :
                    dirs' = IF removed THEN dirs \ {temp_dir} ELSE dirs
              /\ temp_dir' = 0
         ELSE UNCHANGED <<temp_dir, dirs>>
    /\ vpc' = "returned"
    /\ UNCHANGED <<batchVars, inputs, created, calls, predOutcome, fgOutcome,
                   fgSource, result, pureVars>>

Next ==
    \/ MainNoSubjects
    \/ MainConstruct
    \/ MainCall
    \/ MainCollect
    \/ MainSummary
    \/ VsCheckInputs
    \/ VsMkdtemp
    \/ VsConvert
    \/ VsPredict
    \/ VsForeground
    \/ VsLoadKeep
    \/ VsMetrics
    \/ VsFinally

Spec == Init /\ [][Next]_vars

(***************************************************************************)
(* The gate alone: every combination of four metric values around the      *)
(* targets, zero and +infinity is handed to _check_pass once.              *)
(***************************************************************************)
GateDelta == 1

Around(t) == {Fin(0)} \cup {Fin(v) : v \in (t - GateDelta)..(t + GateDelta)}

BatchIdle ==
    /\ subjects = <<>>
    /\ mainPc = "unused"
    /\ i = 0
    /\ all_results = <<>>
    /\ success = 0
    /\ failed = 0
    /\ exitStatus = 0
    /\ vpc = "idle"
    /\ inputs = NoInputs
    /\ temp_dir = 0
    /\ created = 0
    /\ dirs = {}
    /\ calls = NoCalls
    /\ predOutcome = "none"
    /\ fgOutcome = "none"
    /\ fgSource = "none"
    /\ result = <<>>

InitGate ==
    /\ BatchIdle
    /\ shape = <<GridX, GridY, GridZ>>
    /\ norm = IdleNorm
    /\ pipe = IdlePipe
    /\ conc = IdleConc
    /\ sim = IdleSim
    /\ \E dsc \in Around(TARGETS.surface_dsc.v) \cup {Fin(100)},
          hd95 \in Around(TARGETS.hd95_mm.v) \cup {PosInf},
          ssim \in Around(TARGETS.ssim_def.v) \cup {Fin(100)},
          psnr \in Around(TARGETS.psnr_def_db.v) \cup {PosInf} :
          gate = [done |-> FALSE, dsc |-> dsc, hd95 |-> hd95, ssim |-> ssim,
                  psnr |-> psnr, passed |-> FALSE]
    /\ surf = IdleSurf
    /\ roi = IdleRoi

\* line 440: passed = self._check_pass(dsc_surf, hd95, ssim_def, psnr_def)
GateStep ==
    /\ ~gate.done
    /\ gate' = [gate EXCEPT !.done = TRUE,
                            !.passed = _check_pass(gate.dsc, gate.hd95,
                                                   gate.ssim, gate.psnr)]
    /\ UNCHANGED <<batchVars, subjVars, surf, roi, shape, norm, pipe, conc, sim>>

NextGate == GateStep

SpecGate == InitGate /\ [][NextGate]_vars

(***************************************************************************)
(* Mask geometry.  A volume is a GridX x GridY x GridZ grid of voxels; a   *)
(* mask is the set of its voxels that are set.                             *)
(***************************************************************************)
MaxSpacing == 2
MaxMargin == 3

\* the voxels of an array of the shape in hand
Grid == (1..shape[1]) \X (1..shape[2]) \X (1..shape[3])

Max2(m, n) == IF m >= n THEN m ELSE n

\* the voxel spacings (mm per axis) a header can give: positive on each axis
Spacings == (1..MaxSpacing) \X (1..MaxSpacing) \X (1..MaxSpacing)

\* ndimage.generate_binary_structure(3, 1): the centre and its six face
\* neighbours
FaceStructure ==
    {<<0, 0, 0>>, <<1, 0, 0>>, <<-1, 0, 0>>, <<0, 1, 0>>, <<0, -1, 0>>,
     <<0, 0, 1>>, <<0, 0, -1>>}

Shift(p, o) == <<p[1] + o[1], p[2] + o[2], p[3] + o[3]>>

\* ndimage.binary_erosion(m, s), one iteration, border_value 0: a voxel
\* stays when every voxel of the structure placed on it is set; a voxel
\* outside the grid counts as not set
binary_erosion_border_set(m) ==
    LET kept == {p \in m : \A o \in FaceStructure :
                                Shift(p, o) \in m \/ Shift(p, o) \notin Grid}
    IN  {p : p \in kept}

binary_erosion(m) ==
    LET kept == {p \in m : \A o \in FaceStructure : Shift(p, o) \in m}
    IN  {p : p \in kept}

binary_dilation_once_hollow(m) ==
    LET reached == {p \in Grid : \E o \in FaceStructure \ {<<0, 0, 0>>} : Shift(p, o) \in m}
    IN  {p : p \in reached}

\* one iteration of ndimage.binary_dilation(m, structure=s), border_value 0
binary_dilation_once(m) ==
    LET reached == {p \in Grid : \E o \in FaceStructure : Shift(p, o) \in m}
    IN  {p : p \in reached}

RECURSIVE binary_dilation(_, _)
\* ndimage.binary_dilation(m, structure=s, iterations=n), n >= 1
binary_dilation(m, n) ==
    IF n = 0 THEN m
    ELSE LET next == binary_dilation_once(m)
         IN  \* a mask that a step leaves as it is stays so in every later step
             IF next = m THEN m ELSE binary_dilation(next, n - 1)

\* int(np.ceil(margin_mm / s)) for whole millimetres
CeilDiv(m, d) == (m + d - 1) \div d

clip_to_roi_first_axis_count(mask, anchor_mask, spacing, margin_mm) ==
    LET iters == [k \in 1..3 |-> Max2(1, CeilDiv(margin_mm, spacing[k]))]
        ROI   == binary_dilation(anchor_mask, iters[1])
    IN  mask \cap ROI

clip_to_roi_eroded_anchor(mask, anchor_mask, spacing, margin_mm) ==
    LET iters == [k \in 1..3 |-> Max2(1, CeilDiv(margin_mm, spacing[k]))]
        n     == Max2(iters[1], Max2(iters[2], iters[3]))
        ROI   == binary_dilation(binary_erosion(anchor_mask), n)
    IN  mask \cap ROI

\* clip_to_roi (lines 222-229)
clip_to_roi(mask, anchor_mask, spacing, margin_mm) ==
    LET iters == [k \in 1..3 |-> Max2(1, CeilDiv(margin_mm, spacing[k]))]
        n     == Max2(iters[1], Max2(iters[2], iters[3]))
        ROI   == binary_dilation(anchor_mask, n)
    IN  mask \cap ROI

Dist2_in_voxels(p, q, spacing) ==
    (p[1] - q[1]) * (p[1] - q[1]) + (p[2] - q[2]) * (p[2] - q[2])
  + (p[3] - q[3]) * (p[3] - q[3])

\* the square of the physical distance between two voxels
Dist2(p, q, spacing) ==
    (spacing[1] * (p[1] - q[1])) * (spacing[1] * (p[1] - q[1]))
  + (spacing[2] * (p[2] - q[2])) * (spacing[2] * (p[2] - q[2]))
  + (spacing[3] * (p[3] - q[3])) * (spacing[3] * (p[3] - q[3]))

\* ndimage.distance_transform_edt(~s, sampling=spacing) read at voxel p: the
\* distance from p to the nearest voxel of s, squared.  With s empty the
\* input has no zero and scipy measures from the index -1 of every axis;
\* neither caller gets there, since the surface of a non-empty mask is not
\* empty and hd95_dt returns before it reads the field.
distance_transform_edt(s, spacing, p) ==
    LET ds == {Dist2(p, q, spacing) : q \in (IF s = {} THEN {<<0, 0, 0>>} ELSE s)}
    IN  CHOOSE d \in ds : \A e \in ds : d <= e

\* a XOR binary_erosion(a): the erosion is a subset of a
SurfaceOf(a) ==
    LET eroded == binary_erosion(a)
    IN  {p \in a : p \notin eroded}

SURFACE_TOL_MM == 5
ROI_MARGIN_MM == 30

\* a float that is the quotient of two counts
Ratio(n, d) == [num |-> n, den |-> d]
One  == Ratio(1, 1)
Zero == Ratio(0, 1)
IsOne(r)  == r.num = r.den
IsZero(r) == r.num = 0

surface_dsc_one_empty_is_one(a, b, spacing, tol_mm) ==
    IF a = {} \/ b = {} THEN One
    ELSE LET sa == SurfaceOf(a)
             sb == SurfaceOf(b)
             within_a == {p \in sa : distance_transform_edt(sb, spacing, p) <= tol_mm * tol_mm}
             within_b == {p \in sb : distance_transform_edt(sa, spacing, p) <= tol_mm * tol_mm}
         IN  Ratio(Cardinality(within_a) + Cardinality(within_b),
                   Max2(Cardinality(sa) + Cardinality(sb), 1))

surface_dsc_tol_squared_twice(a, b, spacing, tol_mm) ==
    IF a = {} /\ b = {} THEN One
    ELSE IF a = {} \/ b = {} THEN Zero
    ELSE LET sa == SurfaceOf(a)
             sb == SurfaceOf(b)
             tol2 == tol_mm * tol_mm
             within_a == {p \in sa : distance_transform_edt(sb, spacing, p) <= tol2 * tol2}
             within_b == {p \in sb : distance_transform_edt(sa, spacing, p) <= tol2 * tol2}
         IN  Ratio(Cardinality(within_a) + Cardinality(within_b),
                   Max2(Cardinality(sa) + Cardinality(sb), 1))

surface_dsc_first_surface_only(a, b, spacing, tol_mm) ==
    IF a = {} /\ b = {} THEN One
    ELSE IF a = {} \/ b = {} THEN Zero
    ELSE LET sa == SurfaceOf(a)
             sb == SurfaceOf(b)
             within_a == {p \in sa : distance_transform_edt(sb, spacing, p) <= tol_mm * tol_mm}
         IN  Ratio(Cardinality(within_a), Max2(Cardinality(sa), 1))

\* surface_dsc (lines 242-265); dt <= tol_mm is compared on the squares
surface_dsc(a, b, spacing, tol_mm) ==
    IF a = {} /\ b = {} THEN One
    ELSE IF a = {} \/ b = {} THEN Zero
    ELSE LET sa == SurfaceOf(a)
             sb == SurfaceOf(b)
             within_a == {p \in sa : distance_transform_edt(sb, spacing, p) <= tol_mm * tol_mm}
             within_b == {p \in sb : distance_transform_edt(sa, spacing, p) <= tol_mm * tol_mm}
         IN  Ratio(Cardinality(within_a) + Cardinality(within_b),
                   Max2(Cardinality(sa) + Cardinality(sb), 1))

(***************************************************************************)
(* hd95_dt's result: +infinity, or the value np.percentile(d, 95) takes by *)
(* linear interpolation between two neighbouring order statistics of the   *)
(* pooled distances: (1 - f) * sqrt(lo2) + f * sqrt(hi2), f = fnum / 100.  *)
(***************************************************************************)
HdInf == [inf |-> TRUE, lo2 |-> 0, hi2 |-> 0, fnum |-> 0]
HdVal(lo2, hi2, fnum) == [inf |-> FALSE, lo2 |-> lo2, hi2 |-> hi2, fnum |-> fnum]
HdIsZero(h) == ~h.inf /\ h.lo2 = 0 /\ (h.fnum = 0 \/ h.hi2 = 0)

\* dt[s]: the distance field dt read at the voxels of s, as the set of
\* pairs <<voxel, squared distance to the nearest voxel of t>>
ReadAt(s, t, spacing) == {<<p, distance_transform_edt(t, spacing, p)>> : p \in s}

\* np.percentile(np.hstack([d_ab, d_ba]), 95): d_ab and d_ba are sets of
\* pairs <<voxel, squared distance>>; the pooled list has n entries, the
\* virtual index is 0.95 * (n - 1)
percentile95(d_ab, d_ba) ==
    LET n      == Cardinality(d_ab) + Cardinality(d_ba)
        values == {x[2] : x \in d_ab} \cup {x[2] : x \in d_ba}
        below(v) == Cardinality({x \in d_ab : x[2] < v})
                  + Cardinality({x \in d_ba : x[2] < v})
        upto(v)  == Cardinality({x \in d_ab : x[2] <= v})
                  + Cardinality({x \in d_ba : x[2] <= v})
        \* the k-th smallest entry of the pooled list, k counted from 0
        sorted(k) == CHOOSE v \in values : below(v) <= k /\ k < upto(v)
        k    == (95 * (n - 1)) \div 100
        fnum == (95 * (n - 1)) % 100
    IN  HdVal(sorted(k), IF fnum = 0 THEN sorted(k) ELSE sorted(k + 1), fnum)

\* hd95_dt (lines 268-290)
hd95_dt(a, b, spacing) ==
    IF a = {} /\ b = {} THEN HdVal(0, 0, 0)
    ELSE IF a = {} \/ b = {} THEN HdInf
    ELSE LET sa == SurfaceOf(a)
             sb == SurfaceOf(b)
         IN  IF sa = {} \/ sb = {} THEN HdInf
             ELSE percentile95(ReadAt(sa, sb, spacing), ReadAt(sb, sa, spacing))

(***************************************************************************)
(* The two surface metrics as floats in hundredths: surface_dsc rounded    *)
(* down and hd95 rounded up, so that dsc >= t and hd95 <= t are the exact  *)
(* comparisons for every t that is a whole number of hundredths.  An       *)
(* interpolated hd95 is rounded up from its two rounded-up ends and can be *)
(* 0.01 high.                                                              *)
(***************************************************************************)
DscFloat(r) == Fin((100 * r.num) \div r.den)

\* the least whole c with c >= 100 * sqrt(x)
CeilSqrt100(x) ==
    LET r == CHOOSE k \in 0..x : k * k <= x /\ x < (k + 1) * (k + 1)
    IN  CHOOSE c \in (100 * r)..(100 * r + 100) :
            /\ c * c >= 10000 * x
            /\ (c = 0 \/ (c - 1) * (c - 1) < 10000 * x)

HdFloat(h) ==
    IF h.inf THEN PosInf
    ELSE IF h.fnum = 0 \/ h.lo2 = h.hi2 THEN Fin(CeilSqrt100(h.lo2))
    ELSE Fin(((100 - h.fnum) * CeilSqrt100(h.lo2)
              + h.fnum * CeilSqrt100(h.hi2) + 99) \div 100)

(***************************************************************************)
(* The masks the geometry is run on: the empty mask, every single voxel,   *)
(* every axis-aligned box that starts at the first voxel or ends at the    *)
(* last one (lines, slabs, the whole grid), every box that stays off the   *)
(* border of the grid, and every mask made of the first voxel and one      *)
(* other voxel.                                                            *)
(***************************************************************************)
Box(lo, hi) ==
    {p \in Grid : \A k \in 1..3 : lo[k] <= p[k] /\ p[k] <= hi[k]}

FirstVoxel == <<1, 1, 1>>
LastVoxel  == <<shape[1], shape[2], shape[3]>>
Interior   == {p \in Grid : p[1] \in 2..(shape[1] - 1) /\ p[2] \in 2..(shape[2] - 1)
                            /\ p[3] \in 2..(shape[3] - 1)}

Masks ==
    {{}} \cup {{p} : p \in Grid}
         \cup {Box(FirstVoxel, hi) : hi \in Grid}
         \cup {Box(lo, LastVoxel) : lo \in Grid}
         \cup {Box(lo, hi) : lo \in Interior, hi \in Interior}
         \cup {{FirstVoxel, q} : q \in Grid}

\* the second region of a surface comparison: the first region itself, the
\* empty mask, the whole grid, or the first or the last voxel alone
Probes(a) == {a, {}, Grid, {FirstVoxel}, {LastVoxel}}

(***************************************************************************)
(* The surface metrics alone (lines 431-433): surface_dsc, then hd95_dt,   *)
(* on a pair of regions and a spacing, then the gate (line 440) with the   *)
(* two similarity metrics as inputs.                                       *)
(***************************************************************************)
InitSurf ==
    /\ BatchIdle
    /\ gate = IdleGate
    /\ shape = <<GridX, GridY, GridZ>>
    /\ norm = IdleNorm
    /\ pipe = IdlePipe
    /\ conc = IdleConc
    /\ sim = IdleSim
    /\ \E a \in Masks, spacing \in Spacings :
          \E b \in Probes(a) :
             surf = [phase |-> "input", a |-> a, b |-> b, spacing |-> spacing,
                     dsc |-> Zero, hd95 |-> HdInf, ssim |-> Fin(0),
                     psnr |-> Fin(0), passed |-> FALSE]
    /\ roi = IdleRoi

\* lines 431-432
SurfaceDscStep ==
    /\ surf.phase = "input"
    /\ surf' = [surf EXCEPT !.phase = "dsc",
                            !.dsc = surface_dsc(surf.a, surf.b, surf.spacing,
                                                SURFACE_TOL_MM)]
    /\ UNCHANGED <<batchVars, subjVars, gate, roi, shape, norm, pipe, conc, sim>>

\* line 433
Hd95Step ==
    /\ surf.phase = "dsc"
    /\ surf' = [surf EXCEPT !.phase = "done",
                            !.hd95 = hd95_dt(surf.a, surf.b, surf.spacing)]
    /\ UNCHANGED <<batchVars, subjVars, gate, roi, shape, norm, pipe, conc, sim>>

\* line 440, with ssim_def and psnr_def as inputs
SurfGateStep ==
    /\ surf.phase = "done"
    /\ \E ssim \in SsimValues, psnr \in PsnrValues :
          surf' = [surf EXCEPT !.phase = "gated", !.ssim = ssim, !.psnr = psnr,
                               !.passed = _check_pass(DscFloat(surf.dsc),
                                                      HdFloat(surf.hd95),
                                                      ssim, psnr)]
    /\ UNCHANGED <<batchVars, subjVars, gate, roi, shape, norm, pipe, conc, sim>>

NextSurf == SurfaceDscStep \/ Hd95Step \/ SurfGateStep

SpecSurf == InitSurf /\ [][NextSurf]_vars

(***************************************************************************)
(* The ROI builder alone (lines 419-420): clip_to_roi of the all-ones mask *)
(* against an anchor, a spacing and a margin.                              *)
(***************************************************************************)
InitRoi ==
    /\ BatchIdle
    /\ gate = IdleGate
    /\ surf = IdleSurf
    /\ shape = <<GridX, GridY, GridZ>>
    /\ norm = IdleNorm
    /\ pipe = IdlePipe
    /\ conc = IdleConc
    /\ sim = IdleSim
    /\ \E anchor \in Masks, spacing \in Spacings, margin \in 0..MaxMargin :
          roi = [phase |-> "input", anchor |-> anchor, spacing |-> spacing,
                 margin |-> margin, ROI |-> {}]

\* lines 419-420: ROI = clip_to_roi(np.ones_like(anchor), anchor, spacing, margin)
ClipToRoiStep ==
    /\ roi.phase = "input"
    /\ roi' = [roi EXCEPT !.phase = "done",
                          !.ROI = clip_to_roi(Grid, roi.anchor, roi.spacing,
                                              roi.margin)]
    /\ UNCHANGED <<batchVars, subjVars, gate, surf, shape, norm, pipe, conc, sim>>

NextRoi == ClipToRoiStep

SpecRoi == InitRoi /\ [][NextRoi]_vars

(***************************************************************************)
(* The surface metrics on a pair of regions and on the same pair the other *)
(* way round (lines 431-433 with the two regions in either order).         *)
(***************************************************************************)
\* the second region: one voxel, or the first plane of the array
SymProbes == {{FirstVoxel}, Box(FirstVoxel, <<1, shape[2], shape[3]>>)}

InitSym ==
    /\ BatchIdle
    /\ gate = IdleGate
    /\ shape = <<GridX, GridY, GridZ>>
    /\ norm = IdleNorm
    /\ pipe = IdlePipe
    /\ conc = IdleConc
    /\ sim = IdleSim
    /\ \E a \in Masks, b \in SymProbes, spacing \in Spacings :
          surf = [phase |-> "pair", a |-> a, b |-> b, spacing |-> spacing,
                  dsc |-> Zero, hd95 |-> HdInf, dsc_ba |-> Zero,
                  hd95_ba |-> HdInf]
    /\ roi = IdleRoi

\* surface_dsc(a, b), hd95_dt(a, b)
SymForwardStep ==
    /\ surf.phase = "pair"
    /\ surf' = [surf EXCEPT !.phase = "forward",
                            !.dsc = surface_dsc(surf.a, surf.b, surf.spacing,
                                                SURFACE_TOL_MM),
                            !.hd95 = hd95_dt(surf.a, surf.b, surf.spacing)]
    /\ UNCHANGED <<batchVars, subjVars, gate, roi, shape, norm, pipe, conc, sim>>

\* surface_dsc(b, a), hd95_dt(b, a)
SymBackwardStep ==
    /\ surf.phase = "forward"
    /\ surf' = [surf EXCEPT !.phase = "both",
                            !.dsc_ba = surface_dsc(surf.b, surf.a, surf.spacing,
                                                   SURFACE_TOL_MM),
                            !.hd95_ba = hd95_dt(surf.b, surf.a, surf.spacing)]
    /\ UNCHANGED <<batchVars, subjVars, gate, roi, shape, norm, pipe, conc, sim>>

NextSym == SymForwardStep \/ SymBackwardStep

SpecSym == InitSym /\ [][NextSym]_vars

(***************************************************************************)
(* Images.  An image is [den, num]: the sample at voxel p is num[p] / den, *)
(* den > 0.  A loaded volume has den = 1 and whole samples; the normalizer *)
(* divides by hi - lo, which is a whole number of hundredths.              *)
(***************************************************************************)
NormLen == 3
MaxIntensity == 2

Loaded(samples) == [den |-> 1, num |-> samples]

Min2(m, n) == IF m <= n THEN m ELSE n

\* vals[k] of the sorted vals, k counted from 0; vals is a set of pairs
\* <<voxel, value>>
Sorted(vals, k) ==
    CHOOSE v \in {x[2] : x \in vals} :
        /\ Cardinality({x \in vals : x[2] < v}) <= k
        /\ k < Cardinality({x \in vals : x[2] <= v})

\* np.percentile(vals, q) in hundredths: linear interpolation at the
\* virtual index q / 100 * (n - 1)
percentile(vals, q) ==
    LET n    == Cardinality(vals)
        k    == (q * (n - 1)) \div 100
        fnum == (q * (n - 1)) % 100
    IN  IF fnum = 0 THEN 100 * Sorted(vals, k)
        ELSE 100 * Sorted(vals, k)
             + fnum * (Sorted(vals, k + 1) - Sorted(vals, k))

_global_rescale_no_min_max_fallback(raw_img, defaced_img, fg_mask) ==
    LET inside == {<<p, raw_img.num[p]>> : p \in fg_mask}
        vals   == IF inside = {} THEN {<<p, raw_img.num[p]>> : p \in Grid}
                                 ELSE inside
        lo     == percentile(vals, 1)
        hi     == percentile(vals, 99)
        scale(x) == [den |-> hi - lo,
                     num |-> [p \in Grid |->
                                Max2(0, Min2(hi - lo, 100 * x.num[p] - lo))]]
    IN  IF hi <= lo
          THEN [raw_s |-> raw_img, def_s |-> defaced_img, peak |-> 1]
          ELSE [raw_s |-> scale(raw_img), def_s |-> scale(defaced_img),
                peak |-> 1]

\* _global_rescale (lines 292-312) on loaded volumes; lo and hi are kept in
\* hundredths, scale(x) = clip((x - lo) / (hi - lo), 0, 1)
_global_rescale(raw_img, defaced_img, fg_mask) ==
    LET inside == {<<p, raw_img.num[p]>> : p \in fg_mask}
        vals   == IF inside = {} THEN {<<p, raw_img.num[p]>> : p \in Grid}
                                 ELSE inside
        lo1    == percentile(vals, 1)
        hi1    == percentile(vals, 99)
        lo     == IF hi1 <= lo1 THEN 100 * Sorted(vals, 0) ELSE lo1
        hi     == IF hi1 <= lo1 THEN 100 * Sorted(vals, Cardinality(vals) - 1)
                                ELSE hi1
        scale(x) == [den |-> hi - lo,
                     num |-> [p \in Grid |->
                                Max2(0, Min2(hi - lo, 100 * x.num[p] - lo))]]
    IN  IF hi <= lo
          THEN [raw_s |-> raw_img, def_s |-> defaced_img, peak |-> 1]
          ELSE [raw_s |-> scale(raw_img), def_s |-> scale(defaced_img),
                peak |-> 1]

(***************************************************************************)
(* A decibel value 10 * log10(num / den), kept as the quotient; +infinity  *)
(* has inf set.                                                            *)
(***************************************************************************)
DbInf == [inf |-> TRUE, num |-> 1, den |-> 1]
Db(n, d) == [inf |-> FALSE, num |-> n, den |-> d]

RECURSIVE WeightedSum(_, _)
\* the sum over the values v of v * count[v]
WeightedSum(count, values) ==
    IF values = {} THEN 0
    ELSE LET v == CHOOSE w \in values : TRUE
         IN  v * count[v] + WeightedSum(count, values \ {v})

\* the sum over the voxels of m of (img1 - img2)^2, times den^2: each
\* squared difference that occurs, times the number of voxels that have it
SumSqDiff(img1, img2, m) ==
    LET sq == [p \in m |-> (img1.num[p] - img2.num[p]) * (img1.num[p] - img2.num[p])]
        values == {sq[p] : p \in m}
        count  == [v \in values |-> Cardinality({p \in m : sq[p] = v})]
    IN  WeightedSum(count, values)

calculate_psnr_masked_zero_mse_is_zero_db(img1, img2, mask, peak) ==
    IF mask = {} THEN DbInf
    ELSE LET sq == SumSqDiff(img1, img2, mask)
         IN  IF sq <= 0 THEN Db(1, 1)
             ELSE Db(peak * peak * Cardinality(mask) * img1.den * img1.den, sq)

calculate_psnr_masked_empty_is_zero_db(img1, img2, mask, peak) ==
    IF mask = {} THEN Db(1, 1)
    ELSE LET sq == SumSqDiff(img1, img2, mask)
         IN  IF sq <= 0 THEN DbInf
             ELSE Db(peak * peak * Cardinality(mask) * img1.den * img1.den, sq)

\* calculate_psnr_masked (lines 345-358); img1 and img2 have the same den.
\* mse = sq / (|mask| * den^2), so peak^2 / mse = peak^2 * |mask| * den^2 / sq
calculate_psnr_masked(img1, img2, mask, peak) ==
    IF mask = {} THEN DbInf
    ELSE LET sq == SumSqDiff(img1, img2, mask)
         IN  IF sq <= 0 THEN DbInf
             ELSE Db(peak * peak * Cardinality(mask) * img1.den * img1.den, sq)

RECURSIVE DbHundredths(_, _)
\* 10 * log10(n / d) in hundredths of a decibel, exact on the multiples of
\* 10 dB and the middle of its 10 dB band otherwise
DbHundredths(n, d) ==
    IF n = d THEN 0
    ELSE IF n > d
           THEN IF n < 10 * d THEN 500 ELSE 1000 + DbHundredths(n, 10 * d)
           ELSE IF 10 * n > d THEN -500 ELSE DbHundredths(10 * n, d) - 1000

\* the float a decibel value is, to the resolution of DbHundredths: every
\* comparison with 0 dB and with TARGETS.psnr_def_db is the exact one
DbFloat(x) == IF x.inf THEN PosInf ELSE Fin(DbHundredths(x.num, x.den))

(***************************************************************************)
(* The normalizer and the masked PSNR alone (lines 429, 438, 440): the two *)
(* volumes are every raw volume with samples 0..MaxIntensity on a line of  *)
(* NormLen voxels and a candidate that equals it, is constant, or differs  *)
(* from it at the first voxel; the other three metrics of the gate are     *)
(* inputs.  The 1st and the 99th percentile of n values (lines 300-301)    *)
(* sit at the indices 0.01 * (n - 1) and 0.99 * (n - 1): they can be equal *)
(* while the minimum is below the maximum only from n = 101 on, so one raw *)
(* volume on a line of that length is added: the least sample at its first *)
(* voxel, the greatest at its last, and 1 everywhere between.              *)
(***************************************************************************)
PercentileSpan == 101

Spike ==
    Loaded([p \in Grid |-> IF p = FirstVoxel THEN 0
                           ELSE IF p = LastVoxel THEN MaxIntensity ELSE 1])

Volumes == {Loaded(f) : f \in [Grid -> 0..MaxIntensity]}

Candidates(raw) ==
    {raw} \cup {Loaded([p \in Grid |-> c]) : c \in 0..MaxIntensity}
          \cup {Loaded([raw.num EXCEPT ![FirstVoxel] = c]) : c \in 0..MaxIntensity}

InitNorm ==
    /\ BatchIdle
    /\ gate = IdleGate
    /\ surf = IdleSurf
    /\ roi = IdleRoi
    /\ \E len \in {NormLen, PercentileSpan} : shape = <<len, 1, 1>>
    /\ \E raw \in (IF shape[1] = PercentileSpan THEN {Spike} ELSE Volumes),
          fg \in (IF shape[1] = PercentileSpan
                    THEN {{}, Grid, Grid \ {FirstVoxel}} ELSE SUBSET Grid) :
          \E defaced \in Candidates(raw), region \in {{}, fg, Grid} :
             norm = [phase |-> "input", raw_img |-> raw, defaced_img |-> defaced,
                     FG |-> fg, def_region |-> region,
                     raw_s |-> raw, def_s |-> defaced, peak |-> 0,
                     psnr_def |-> DbInf, dsc |-> Fin(0), hd95 |-> Fin(0),
                     ssim |-> Fin(0), passed |-> FALSE]
    /\ pipe = IdlePipe
    /\ conc = IdleConc
    /\ sim = IdleSim

\* line 429: raw_s, def_s, peak = self._global_rescale(raw_img, defaced_img, FG)
GlobalRescaleStep ==
    /\ norm.phase = "input"
    /\ LET out == _global_rescale(norm.raw_img, norm.defaced_img, norm.FG)
       IN  norm' = [norm EXCEPT !.phase = "rescaled", !.raw_s = out.raw_s,
                                !.def_s = out.def_s, !.peak = out.peak]
    /\ UNCHANGED <<batchVars, subjVars, gate, surf, roi, shape, pipe, conc, sim>>

\* line 438: psnr_def = self.calculate_psnr_masked(raw_s, def_s, def_region, peak)
PsnrStep ==
    /\ norm.phase = "rescaled"
    /\ norm' = [norm EXCEPT !.phase = "psnr",
                            !.psnr_def = calculate_psnr_masked(
                                norm.raw_s, norm.def_s, norm.def_region, norm.peak)]
    /\ UNCHANGED <<batchVars, subjVars, gate, surf, roi, shape, pipe, conc, sim>>

\* line 440, with the three other metrics as inputs
NormGateStep ==
    /\ norm.phase = "psnr"
    /\ \E dsc \in {Fin(0), Fin(100)}, hd95 \in {Fin(0), PosInf},
          ssim \in {Fin(50), Fin(100)} :
          norm' = [norm EXCEPT !.phase = "gated", !.dsc = dsc, !.hd95 = hd95,
                               !.ssim = ssim,
                               !.passed = _check_pass(dsc, hd95, ssim,
                                                      DbFloat(norm.psnr_def))]
    /\ UNCHANGED <<batchVars, subjVars, gate, surf, roi, shape, pipe, conc, sim>>

NextNorm == GlobalRescaleStep \/ PsnrStep \/ NormGateStep

SpecNorm == InitNorm /\ [][NextNorm]_vars

(***************************************************************************)
(* get_foreground_mask's heuristic (lines 210-220).                        *)
(***************************************************************************)
RECURSIVE Grow(_, _)
\* the voxels of m that a path of face neighbours inside m joins to seeds
Grow(seeds, m) ==
    LET reached == seeds \cup {p \in m : \E o \in FaceStructure : Shift(p, o) \in seeds}
        next    == {p : p \in reached}
    IN  IF next = seeds THEN seeds ELSE Grow(next, m)

\* the position of voxel p in the flattened (C order) array
Raster(p) == ((p[1] - 1) * shape[2] + (p[2] - 1)) * shape[3] + (p[3] - 1)

\* ndimage.label(m): the components of m under the default structure (face
\* neighbours), and the voxel that gives each its label number: labels
\* count up in the order in which a scan of the array meets the components
Components(m) == {Grow({p}, m) : p \in m}
FirstOf(c) == CHOOSE p \in c : \A q \in c : Raster(p) <= Raster(q)

\* lines 214-217: sizes, np.argmax (the first maximum), lbl == largest
LargestComponent(m) ==
    LET comps == Components(m)
    IN  IF m = {} THEN m
        ELSE CHOOSE c \in comps :
                \A d \in comps :
                    \/ Cardinality(c) > Cardinality(d)
                    \/ /\ Cardinality(c) = Cardinality(d)
                       /\ Raster(FirstOf(c)) <= Raster(FirstOf(d))

\* ndimage.binary_fill_holes(m): everything but the background that a path
\* of face neighbours joins to the outside of the array
binary_fill_holes(m) ==
    LET background == Grid \ m
        at_border  == {p \in background : \E o \in FaceStructure : Shift(p, o) \notin Grid}
    IN  Grid \ Grow(at_border, background)

\* the except branch of get_foreground_mask (lines 210-220)
ForegroundHeuristic(defaced_img) ==
    LET thr == percentile({<<p, defaced_img.num[p]>> : p \in Grid}, 5)
        m   == {p \in Grid : 100 * defaced_img.num[p] > thr}
    IN  binary_fill_holes(LargestComponent(m))

(***************************************************************************)
(* calculate_ssim_masked (lines 314-343).  The score of one slice is the   *)
(* answer of skimage's structural_similarity: 1.0 for two equal patches,   *)
(* and for two different patches a value `estimate` that is an input here. *)
(***************************************************************************)
SSIM_MIN_VOXELS == 25

\* mask[:, :, z]
SliceOf(mask, z) ==
    LET slice == {p \in mask : p[3] = z}
    IN  {p : p \in slice}

\* the crop of lines 323-326: the bounding box of m in its slice
BoundingBox(m) ==
    LET rows   == {q[1] : q \in m}
        cols   == {q[2] : q \in m}
        planes == {q[3] : q \in m}
        between(S) == {v \in 1..Max2(shape[1], shape[2]) :
                          (\E x \in S : x <= v) /\ (\E x \in S : x >= v)}
    IN  {<<x, y, z>> : x \in between(rows), y \in between(cols), z \in planes}

Side(m, k) == Cardinality({p[k] : p \in BoundingBox(m)})

WindowSize_even_kept(min_side) == Max2(3, Min2(7, min_side))

\* lines 333-336
WindowSize(min_side) ==
    LET w == Min2(7, min_side)
    IN  Max2(3, IF w % 2 = 0 THEN w - 1 ELSE w)

\* a.std() < 1e-8 for samples that are quotients of whole numbers by one
\* denominator of at most a few hundred: all samples of the patch are equal
Flat(img, box) == Cardinality({img.num[p] : p \in box}) <= 1

ScoredSlices_floor_excluded(img1, img2, mask) ==
    {z \in 1..shape[3] :
        LET m == SliceOf(mask, z)
        IN  /\ Cardinality(m) > SSIM_MIN_VOXELS
            /\ Min2(Side(m, 1), Side(m, 2)) >= 3
            /\ ~Flat(img1, BoundingBox(m))
            /\ ~Flat(img2, BoundingBox(m))}

\* lines 319-339: the slices that get a score
ScoredSlices(img1, img2, mask) ==
    {z \in 1..shape[3] :
        LET m == SliceOf(mask, z)
        IN  /\ Cardinality(m) >= SSIM_MIN_VOXELS
            /\ Min2(Side(m, 1), Side(m, 2)) >= 3
            /\ ~Flat(img1, BoundingBox(m))
            /\ ~Flat(img2, BoundingBox(m))}

\* ssim(a, b, data_range=1.0, win_size=win), in hundredths
SliceScore(img1, img2, mask, z, estimate) ==
    LET box == BoundingBox(SliceOf(mask, z))
    IN  IF \A p \in box : img1.num[p] = img2.num[p] THEN 100 ELSE estimate

RECURSIVE SumOver(_, _)
SumOver(f, S) ==
    IF S = {} THEN 0
    ELSE LET x == CHOOSE y \in S : TRUE IN f[x] + SumOver(f, S \ {x})

calculate_ssim_masked_default_zero(img1, img2, mask, estimate) ==
    LET scored == ScoredSlices(img1, img2, mask)
        vals   == [z \in scored |-> SliceScore(img1, img2, mask, z, estimate)]
    IN  IF scored = {} THEN Fin(0)
        ELSE Fin(SumOver(vals, scored) \div Cardinality(scored))

calculate_ssim_masked(img1, img2, mask, estimate) ==
    LET scored == ScoredSlices(img1, img2, mask)
        vals   == [z \in scored |-> SliceScore(img1, img2, mask, z, estimate)]
    IN  IF scored = {} THEN Fin(100)
        ELSE Fin(SumOver(vals, scored) \div Cardinality(scored))

(***************************************************************************)
(* The data path of verify_subject (lines 401-461), from the prediction of *)
(* the removal region to the record.  A mask file is [grid, vox]: vox is   *)
(* the stored array, grid tells how the file's grid lies to the candidate  *)
(* volume's: "ref" is the same grid, "flipped" the same shape with the     *)
(* first axis running the other way (another affine), "other_shape" a grid *)
(* of another shape.                                                       *)
(***************************************************************************)
PipeX == 5
PipeY == 5
PipeZ == 1

FlipX(m) == {<<shape[1] + 1 - p[1], p[2], p[3]>> : p \in m}

\* resample_from_to(m_nii, (ref.shape, ref.affine), order=0) for a file
\* whose grid is the flipped one: nearest neighbour is exact
resample_from_to(file) == [grid |-> "ref", vox |-> FlipX(file.vox)]

\* load_binary_mask_to_ref (lines 190-198)
load_binary_mask_to_ref(file) ==
    IF file.grid # "ref" THEN resample_from_to(file) ELSE file

\* load_nifti_data (lines 186-188) and the threshold > 0: the array as stored
load_nifti_data(file) == file

FirstPlane == Box(FirstVoxel, <<1, shape[2], shape[3]>>)

Const(c) == Loaded([p \in Grid |-> c])
Ramp == Loaded([p \in Grid |-> (p[1] + p[2]) % (MaxIntensity + 1)])
Inverted(img) == Loaded([p \in Grid |-> MaxIntensity - img.num[p]])

\* the spacings of the candidate volume's header: fine, finer in the plane
\* than across it, and as coarse as the ROI margin (the dilation is then a
\* single step and the ROI can be smaller than the array)
PipeSpacings == {<<1, 1, 1>>, <<1, 1, MaxSpacing>>,
                 <<ROI_MARGIN_MM, ROI_MARGIN_MM, ROI_MARGIN_MM>>}

NoArray == [grid |-> "ref", vox |-> {}]

InitPipe ==
    /\ BatchIdle
    /\ gate = IdleGate
    /\ surf = IdleSurf
    /\ roi = IdleRoi
    /\ shape = <<PipeX, PipeY, PipeZ>>
    /\ norm = IdleNorm
    /\ \E predVox \in {{}, Grid, {FirstVoxel}, FirstPlane, {LastVoxel}},
          grids \in {<<"ref", "ref">>, <<"flipped", "ref">>,
                     <<"other_shape", "ref">>, <<"ref", "flipped">>},
          keepVox \in {{}, Grid, Grid \ FirstPlane},
          fgOk \in BOOLEAN,
          fgVox \in {{}, Grid, Grid \ {LastVoxel}},
          raw \in {Const(0), Const(MaxIntensity), Ramp},
          spacing \in PipeSpacings :
          \E defaced \in {raw, Inverted(raw), Const(0)} :
             /\ (~fgOk => fgVox = {})
             /\ pipe = [stage |-> "start", trace |-> <<>>,
                        predFile |-> [grid |-> grids[1], vox |-> predVox],
                        keepFile |-> [grid |-> grids[2], vox |-> keepVox],
                        fgOutcome |-> IF fgOk THEN "ok" ELSE "failed",
                        fgFile |-> [grid |-> "ref", vox |-> fgVox],
                        raw_file |-> raw, defaced_file |-> defaced,
                        zooms |-> spacing, estimate |-> 0,
                        PRED_REMOVE |-> NoArray, defaced_img |-> Const(0),
                        spacing |-> <<1, 1, 1>>, FG |-> {}, KEEP |-> NoArray,
                        TOOL_REMOVE |-> {}, union_anchor |-> {}, ROI |-> {},
                        PRED_CLIP |-> {}, TOOL_CLIP |-> {},
                        raw_s |-> Const(0), def_s |-> Const(0), peak |-> 0,
                        dsc_surf |-> Zero, hd95 |-> HdInf, ssim_def |-> Fin(0),
                        psnr_def |-> DbInf, passed |-> FALSE, results |-> <<>>]
    /\ conc = IdleConc
    /\ sim = IdleSim

PipeUnchanged ==
    UNCHANGED <<batchVars, subjVars, gate, surf, roi, shape, norm, conc, sim>>

\* the stage that ran is written to the trace
Ran(stage, next) ==
    [pipe EXCEPT !.stage = next, !.trace = Append(@, stage)]

\* lines 405-406: the prediction is loaded as it is stored
PipeLoadPrediction ==
    /\ pipe.stage = "start"
    /\ pipe' = [Ran("load_prediction", "load_candidate")
                  EXCEPT !.PRED_REMOVE = load_nifti_data(pipe.predFile)]
    /\ PipeUnchanged

\* lines 410-411: the candidate volume and its spacing
PipeLoadCandidate ==
    /\ pipe.stage = "load_candidate"
    /\ pipe' = [Ran("load_candidate", "foreground")
                  EXCEPT !.defaced_img = pipe.defaced_file,
                         !.spacing = pipe.zooms]
    /\ PipeUnchanged

\* line 413, get_foreground_mask (lines 200-220)
PipeForeground ==
    /\ pipe.stage = "foreground"
    /\ pipe' = [Ran("foreground", "load_keep")
                  EXCEPT !.FG = IF pipe.fgOutcome = "ok"
                                  THEN load_nifti_data(pipe.fgFile).vox
                                  ELSE ForegroundHeuristic(pipe.defaced_file)]
    /\ PipeUnchanged

\* line 414: the kept mask goes through load_binary_mask_to_ref
PipeLoadKeep ==
    /\ pipe.stage = "load_keep"
    /\ pipe' = [Ran("resample_keep", "regions")
                  EXCEPT !.KEEP = load_binary_mask_to_ref(pipe.keepFile)]
    /\ PipeUnchanged

\* lines 416-418: TOOL_REMOVE and the anchor.  The elementwise | of two
\* arrays of different shapes raises ValueError, caught at line 459
PipeRegions ==
    /\ pipe.stage = "regions"
    /\ LET TOOL_REMOVE == {p \in pipe.FG : p \notin pipe.KEEP.vox}
       IN  IF pipe.PRED_REMOVE.grid = "other_shape"
             THEN pipe' = [Ran("regions", "raised")
                             EXCEPT !.TOOL_REMOVE = TOOL_REMOVE]
             ELSE pipe' = [Ran("regions", "roi_clip")
                             EXCEPT !.TOOL_REMOVE = TOOL_REMOVE,
                                    !.union_anchor =
                                        pipe.PRED_REMOVE.vox \cup TOOL_REMOVE]
    /\ PipeUnchanged

\* lines 419-423
PipeRoiClip ==
    /\ pipe.stage = "roi_clip"
    /\ LET ROI == clip_to_roi(Grid, pipe.union_anchor, pipe.spacing,
                              ROI_MARGIN_MM)
       IN  pipe' = [Ran("roi_clip", "rescale")
                      EXCEPT !.ROI = ROI,
                             !.PRED_CLIP = (pipe.PRED_REMOVE.vox \cap ROI)
                                              \cap pipe.FG,
                             !.TOOL_CLIP = (pipe.TOOL_REMOVE \cap ROI)
                                              \cap pipe.FG]
    /\ PipeUnchanged

\* lines 428-429
PipeRescale ==
    /\ pipe.stage = "rescale"
    /\ LET out == _global_rescale(pipe.raw_file, pipe.defaced_img, pipe.FG)
       IN  pipe' = [Ran("normalize", "surface")
                      EXCEPT !.raw_s = out.raw_s, !.def_s = out.def_s,
                             !.peak = out.peak]
    /\ PipeUnchanged

\* lines 431-433
PipeSurface ==
    /\ pipe.stage = "surface"
    /\ pipe' = [Ran("surface_metrics", "similarity")
                  EXCEPT !.dsc_surf = surface_dsc(pipe.PRED_CLIP, pipe.TOOL_CLIP,
                                                  pipe.spacing, SURFACE_TOL_MM),
                         !.hd95 = hd95_dt(pipe.PRED_CLIP, pipe.TOOL_CLIP,
                                          pipe.spacing)]
    /\ PipeUnchanged

\* what structural_similarity answers for two patches that differ, in
\* hundredths
SsimEstimates == {30, 90}

\* lines 435-438: def_region = TOOL_CLIP
PipeSimilarity ==
    /\ pipe.stage = "similarity"
    /\ \E estimate \in SsimEstimates :
          pipe' = [Ran("similarity_metrics", "gate")
                     EXCEPT !.estimate = estimate,
                            !.ssim_def = calculate_ssim_masked(
                                             pipe.raw_s, pipe.def_s,
                                             pipe.TOOL_CLIP, estimate),
                            !.psnr_def = calculate_psnr_masked(
                                             pipe.raw_s, pipe.def_s,
                                             pipe.TOOL_CLIP, pipe.peak)]
    /\ PipeUnchanged

\* line 440
PipeGate ==
    /\ pipe.stage = "gate"
    /\ pipe' = [Ran("gate", "emit")
                  EXCEPT !.passed = _check_pass(DscFloat(pipe.dsc_surf),
                                                HdFloat(pipe.hd95),
                                                pipe.ssim_def,
                                                DbFloat(pipe.psnr_def))]
    /\ PipeUnchanged

\* lines 446-457
PipeEmit ==
    /\ pipe.stage = "emit"
    /\ pipe' = [Ran("emit", "returned")
                  EXCEPT !.results =
                      <<[surface_dsc |-> pipe.dsc_surf, hd95_mm |-> pipe.hd95,
                         ssim_defaced |-> pipe.ssim_def,
                         psnr_defaced_db |-> pipe.psnr_def,
                         pred_voxels |-> Cardinality(pipe.PRED_CLIP),
                         tool_voxels |-> Cardinality(pipe.TOOL_CLIP),
                         passed |-> pipe.passed]>>]
    /\ PipeUnchanged

NextPipe ==
    \/ PipeLoadPrediction
    \/ PipeLoadCandidate
    \/ PipeForeground
    \/ PipeLoadKeep
    \/ PipeRegions
    \/ PipeRoiClip
    \/ PipeRescale
    \/ PipeSurface
    \/ PipeSimilarity
    \/ PipeGate
    \/ PipeEmit

SpecPipe == InitPipe /\ [][NextPipe]_vars

(***************************************************************************)
(* Runs of verify_subject that overlap on one DefacingVerifier: each run   *)
(* is a thread that executes the statements of lines 388-466 that touch    *)
(* the working directory, one statement at a time.  self.temp_dir is the   *)
(* one attribute of the instance (line 49); run r's mkdtemp returns the    *)
(* directory r.  conc.own[r] is the directory run r created, conc.wrote[r] *)
(* the directories it wrote collaborator inputs or outputs under,          *)
(* conc.removed[r] the directories its cleanup called rmtree on.           *)
(***************************************************************************)
MaxRuns == 2

Runs == 1..MaxRuns

InitConc ==
    /\ BatchIdle
    /\ gate = IdleGate
    /\ surf = IdleSurf
    /\ roi = IdleRoi
    /\ shape = <<GridX, GridY, GridZ>>
    /\ norm = IdleNorm
    /\ pipe = IdlePipe
    /\ conc = [phase |-> "running", temp_dir |-> 0, dirs |-> {},
               pc |-> [r \in Runs |-> "mkdtemp"],
               own |-> [r \in Runs |-> 0],
               wrote |-> [r \in Runs |-> {}],
               removed |-> [r \in Runs |-> {}]]
    /\ sim = IdleSim

ConcUnchanged ==
    UNCHANGED <<batchVars, subjVars, gate, surf, roi, shape, norm, pipe, sim>>

\* line 388: self.temp_dir = tempfile.mkdtemp(...)
ConcMkdtemp(r) ==
    /\ conc.pc[r] = "mkdtemp"
    /\ conc' = [conc EXCEPT !.temp_dir = r, !.dirs = @ \cup {r},
                            !.own[r] = r, !.pc[r] = "convert"]
    /\ ConcUnchanged

\* lines 392-393: Path(self.temp_dir) / "raw_nii" and dcm2nii into it.
\* Path(None) raises TypeError (caught at line 459); mkdir(parents=True)
\* makes the directory again when it is gone
ConcConvert(r) ==
    /\ conc.pc[r] = "convert"
    /\ IF conc.temp_dir = 0
         THEN conc' = [conc EXCEPT !.pc[r] = "finally"]
         ELSE conc' = [conc EXCEPT !.dirs = @ \cup {conc.temp_dir},
                                   !.wrote[r] = @ \cup {conc.temp_dir},
                                   !.pc[r] = "predict"]
    /\ ConcUnchanged

\* lines 402-403: _prepare_single_input and _run_nnunet_predict (lines 115,
\* 145) read self.temp_dir; mkdir(exist_ok=True) raises when the directory
\* is gone (caught at line 459)
ConcPredict(r) ==
    /\ conc.pc[r] = "predict"
    /\ IF conc.temp_dir = 0 \/ conc.temp_dir \notin conc.dirs
         THEN conc' = [conc EXCEPT !.pc[r] = "finally"]
         ELSE conc' = [conc EXCEPT !.wrote[r] = @ \cup {conc.temp_dir},
                                   !.pc[r] = "foreground"]
    /\ ConcUnchanged

\* line 413: get_foreground_mask reads self.temp_dir the same way (lines
\* 202-203); an exception selects the heuristic and the run goes on
ConcForeground(r) ==
    /\ conc.pc[r] = "foreground"
    /\ IF conc.temp_dir = 0 \/ conc.temp_dir \notin conc.dirs
         THEN conc' = [conc EXCEPT !.pc[r] = "finally"]
         ELSE conc' = [conc EXCEPT !.wrote[r] = @ \cup {conc.temp_dir},
                                   !.pc[r] = "finally"]
    /\ ConcUnchanged

\* lines 463-466: the finally clause
ConcFinally(r) ==
    /\ conc.pc[r] = "finally"
    /\ IF conc.temp_dir # 0 /\ conc.temp_dir \in conc.dirs
         THEN \E gone \in BOOLEAN :
                 conc' = [conc EXCEPT
                             !.dirs = IF gone THEN @ \ {conc.temp_dir} ELSE @,
                             !.removed[r] = @ \cup {conc.temp_dir},
                             !.temp_dir = 0,
                             !.pc[r] = "returned"]
         ELSE conc' = [conc EXCEPT !.pc[r] = "returned"]
    /\ ConcUnchanged

NextConc ==
    \E r \in Runs :
        \/ ConcMkdtemp(r)
        \/ ConcConvert(r)
        \/ ConcPredict(r)
        \/ ConcForeground(r)
        \/ ConcFinally(r)

SpecConc == InitConc /\ [][NextConc]_vars

(***************************************************************************)
(* The two similarity metrics alone (lines 437-440) on a region and two    *)
(* image pairs: the pair in hand, and the same first image with a second   *)
(* image that has the samples of the pair's at every voxel of the region   *)
(* and other samples everywhere else.  The array is wide enough for a      *)
(* slice to hold 25 region voxels in a bounding box of shorter side 2, and *)
(* for a window of 7 to be smaller than the shorter side.                  *)
(***************************************************************************)
SsimX == 13
SsimY == 8
SsimZ == 2

\* lines 328-341: the calls of structural_similarity, one per scored slice,
\* with the win_size each is given
SsimCalls(img1, img2, mask) ==
    {[z |-> z,
      win_size |-> WindowSize(Min2(Side(SliceOf(mask, z), 1),
                                   Side(SliceOf(mask, z), 2)))] :
        z \in ScoredSlices(img1, img2, mask)}

\* Ramp on the first slice and its inversion on the others
Mixed ==
    Loaded([p \in Grid |-> IF p[3] = 1 THEN Ramp.num[p]
                           ELSE MaxIntensity - Ramp.num[p]])

\* img with another sample at every voxel outside the region
ChangedOutside(img, region) ==
    Loaded([p \in Grid |-> IF p \in region THEN img.num[p]
                           ELSE (img.num[p] + 1) % (MaxIntensity + 1)])

\* the region: on the first slice the a x b box at the first voxel, whole
\* or without its far corner; the other slices whole or empty
SimMask(a, b, notch, rest) ==
    LET box   == Box(FirstVoxel, <<a, b, 1>>)
        first == IF notch THEN box \ {<<a, b, 1>>} ELSE box
        above == IF rest THEN {p \in Grid : p[3] > 1} ELSE {}
    IN  {p : p \in first \cup above}

SimPairs ==
    {<<Ramp, Ramp>>, <<Ramp, Inverted(Ramp)>>, <<Ramp, Const(0)>>,
     <<Const(1), Ramp>>, <<Ramp, Mixed>>}

InitSim ==
    /\ BatchIdle
    /\ gate = IdleGate
    /\ surf = IdleSurf
    /\ roi = IdleRoi
    /\ shape = <<SsimX, SsimY, SsimZ>>
    /\ norm = IdleNorm
    /\ pipe = IdlePipe
    /\ conc = IdleConc
    /\ \E a \in 1..SsimX, b \in 1..SsimY, notch \in BOOLEAN, rest \in BOOLEAN,
          pair \in SimPairs :
          \E mask \in {SimMask(a, b, notch, rest)} :
              sim = [phase |-> "input", mask |-> mask,
                     img1 |-> pair[1], img2 |-> pair[2],
                     alt2 |-> ChangedOutside(pair[2], mask),
                     estimate |-> 0, calls |-> {}, ssim |-> Fin(0),
                     psnr |-> DbInf, alt_calls |-> {}, alt_ssim |-> Fin(0),
                     alt_psnr |-> DbInf, dsc |-> Fin(0), hd95 |-> Fin(0),
                     passed |-> FALSE]

SimUnchanged ==
    UNCHANGED <<batchVars, subjVars, gate, surf, roi, shape, norm, pipe, conc>>

\* line 437: ssim_def = self.calculate_ssim_masked(raw_s, def_s, def_region)
SimSsimStep ==
    /\ sim.phase = "input"
    /\ \E estimate \in SsimEstimates :
          sim' = [sim EXCEPT !.phase = "ssim", !.estimate = estimate,
                             !.calls = SsimCalls(sim.img1, sim.img2, sim.mask),
                             !.ssim = calculate_ssim_masked(
                                          sim.img1, sim.img2, sim.mask, estimate)]
    /\ SimUnchanged

\* line 438: psnr_def = self.calculate_psnr_masked(raw_s, def_s, def_region, peak)
SimPsnrStep ==
    /\ sim.phase = "ssim"
    /\ sim' = [sim EXCEPT !.phase = "psnr",
                          !.psnr = calculate_psnr_masked(sim.img1, sim.img2,
                                                         sim.mask, 1)]
    /\ SimUnchanged

\* lines 437-438 on the second pair of images, img1 and alt2
SimAltStep ==
    /\ sim.phase = "psnr"
    /\ sim' = [sim EXCEPT !.phase = "alt",
                          !.alt_calls = SsimCalls(sim.img1, sim.alt2, sim.mask),
                          !.alt_ssim = calculate_ssim_masked(
                                           sim.img1, sim.alt2, sim.mask,
                                           sim.estimate),
                          !.alt_psnr = calculate_psnr_masked(
                                           sim.img1, sim.alt2, sim.mask, 1)]
    /\ SimUnchanged

\* line 440, with the two surface metrics as inputs
SimGateStep ==
    /\ sim.phase = "alt"
    /\ \E dsc \in DscValues :
          sim' = [sim EXCEPT !.phase = "gated", !.dsc = dsc,
                             !.passed = _check_pass(dsc, sim.hd95, sim.ssim,
                                                    DbFloat(sim.psnr))]
    /\ SimUnchanged

NextSim == SimSsimStep \/ SimPsnrStep \/ SimAltStep \/ SimGateStep

SpecSim == InitSim /\ [][NextSim]_vars

(***************************************************************************)
(* Claims about the gate, the batch driver and the pipeline's control flow *)
(***************************************************************************)
Ended == mainPc \in {"exited", "crashed"}

MissingInput == ~(inputs.nii /\ inputs.mask /\ inputs.raw)

\* C1: the gate answers PASS exactly when surface_dsc >= 0.80, hd95 <= 30.00,
\* ssim <= 0.80 and psnr <= 10.00; an infinite hd95 or psnr gives FAIL.
C1_GatePassIffAllFourTargetsMet ==
    gate.done =>
        (gate.passed <=>
            /\ gate.dsc.v >= 80
            /\ ~gate.hd95.inf /\ gate.hd95.v <= 3000
            /\ gate.ssim.v <= 80
            /\ ~gate.psnr.inf /\ gate.psnr.v <= 1000)

\* C1 witness: the gate has answered PASS with all four metrics exactly on
\* their targets.
C1_Witness_PassOnTheBoundary ==
    /\ gate.done /\ gate.passed
    /\ gate.dsc = Fin(80) /\ gate.hd95 = Fin(3000)
    /\ gate.ssim = Fin(80) /\ gate.psnr = Fin(1000)

\* C2: when the batch has ended, every discovered subject has been counted
\* once: success + failed is the number of discovered subjects.
C2_EverySubjectCounted ==
    Ended => success + failed = Len(subjects)

\* C3: for a batch of at least one subject the exit status is 0 exactly when
\* every subject produced a record, whatever the records say.
C3_ExitStatusIgnoresRecordContents ==
    (Ended /\ subjects # <<>>) =>
        (exitStatus = 0 <=> Len(all_results) = Len(subjects))

\* C4: when verify_subject returns after having created a working directory,
\* that directory is gone and self.temp_dir is None; and no working directory
\* exists when a subject's run begins.
C4_WorkingStorageReleased ==
    /\ (mainPc = "in_call" /\ vpc = "returned" /\ created # 0) =>
            (temp_dir = 0 /\ created \notin dirs)
    /\ (mainPc = "in_call" /\ vpc = "check_inputs") => dirs = {}

\* C5: a failed foreground prediction never ends the run (the run goes on to
\* the next stage with the fallback mask); a failed removal-region prediction
\* ends it with no record, and the batch driver counts the subject as failed
\* and goes on with the loop.
C5_CollaboratorFailureAsymmetric ==
    [][ /\ (vpc = "foreground" /\ vpc' # "foreground") =>
              /\ vpc' = "load_keep"
              /\ result' = result
              /\ (fgOutcome' \in CollabFailures => fgSource' = "fallback")
        /\ (vpc = "predict" /\ predOutcome' \in CollabFailures) =>
              (vpc' = "finally" /\ result' = <<>>)
        /\ (mainPc = "in_call" /\ predOutcome \in CollabFailures) =>
              /\ result' = <<>>
              /\ mainPc' \in {"in_call", "loop"}
              /\ (mainPc' = "loop" =>
                      (failed' = failed + 1 /\ all_results' = all_results
                       /\ i' = i + 1))
      ]_vars

\* C5 witness: a run whose foreground prediction timed out has returned a
\* record.
C5_Witness_RecordAfterForegroundFailure ==
    /\ vpc = "returned" /\ result # <<>>
    /\ fgOutcome = "timeout" /\ fgSource = "fallback"

\* C6: once the input check of a call has found an input missing, the call
\* has returned None, has invoked no collaborator and has created no working
\* directory.
C6_MissingInputAbortsBeforeAnyWork ==
    (mainPc = "in_call" /\ vpc # "check_inputs" /\ MissingInput) =>
        /\ vpc = "returned"
        /\ result = <<>>
        /\ calls = NoCalls
        /\ created = 0
        /\ temp_dir = 0

\* C6 witness: a call has returned because only the kept mask was missing.
C6_Witness_MaskMissing ==
    /\ mainPc = "in_call" /\ vpc = "returned"
    /\ inputs.nii /\ inputs.raw /\ ~inputs.mask

\* C7: within one call each model is run at most once, and after a failed run
\* (a timeout like any other failure) the same model is not run again: a
\* failed removal prediction leaves the call in its exit path with no record
\* and with the foreground model never run, a failed foreground prediction
\* leaves the fallback mask.
C7_CollaboratorRunAtMostOnceNoRetry ==
    mainPc = "in_call" =>
        /\ calls.pred804 <= 1
        /\ calls.fg803 <= 1
        /\ (predOutcome \in CollabFailures =>
                /\ vpc \in {"finally", "returned"}
                /\ result = <<>>
                /\ calls.pred804 = (IF Invoked(predOutcome) THEN 1 ELSE 0)
                /\ calls.fg803 = 0)
        /\ (fgOutcome \in CollabFailures =>
                /\ vpc \notin {"predict", "foreground"}
                /\ fgSource = "fallback"
                /\ calls.fg803 = (IF Invoked(fgOutcome) THEN 1 ELSE 0))

\* C7 witness: a call has returned after its removal prediction timed out,
\* with the model run once.
C7_Witness_PredictionTimedOut ==
    /\ mainPc = "in_call" /\ vpc = "returned"
    /\ predOutcome = "timeout" /\ calls.pred804 = 1

(***************************************************************************)
(* Claims about the surface metrics and the ROI builder                    *)
(***************************************************************************)
\* C8: with both regions empty surface_dsc is 1.0 and hd95 is 0.0; with
\* exactly one region empty, in either position, surface_dsc is 0.0 and hd95
\* is +infinity.
C8_DegenerateRegionsGiveSentinels ==
    surf.phase = "done" =>
        /\ (surf.a = {} /\ surf.b = {}) =>
                (IsOne(surf.dsc) /\ HdIsZero(surf.hd95))
        /\ ((surf.a = {}) # (surf.b = {})) =>
                (IsZero(surf.dsc) /\ surf.hd95.inf)

\* C8 witness: both metrics have been computed for an empty first region
\* against a single voxel.
C8_Witness_EmptyAgainstOneVoxel ==
    surf.phase = "done" /\ surf.a = {} /\ surf.b = {LastVoxel}

\* C9: for a non-empty mask compared with itself, surface_dsc is 1.0 and
\* hd95 is 0.0, whatever the spacing.
C9_SelfComparisonIsPerfect ==
    (surf.phase = "done" /\ surf.a # {} /\ surf.b = surf.a) =>
        (IsOne(surf.dsc) /\ HdIsZero(surf.hd95))

\* C9 witness: both metrics have been computed for the mask that fills the
\* whole grid against itself, on an anisotropic grid.
C9_Witness_WholeGridAgainstItself ==
    /\ surf.phase = "done" /\ surf.a = Grid /\ surf.b = Grid
    /\ surf.spacing = <<1, 1, MaxSpacing>>

\* C10: the ROI contains the anchor mask, for every anchor, spacing and
\* margin >= 0.
C10_RoiContainsAnchor ==
    roi.phase = "done" => roi.anchor \subseteq roi.ROI

\* C10 witness: the ROI of a single voxel has been built with margin 0 and
\* is one dilation step larger than the anchor.
C10_Witness_MarginZeroStillDilatesOnce ==
    /\ roi.phase = "done" /\ roi.margin = 0
    /\ roi.anchor = {FirstVoxel}
    /\ roi.ROI = {FirstVoxel, <<2, 1, 1>>, <<1, 2, 1>>, <<1, 1, 2>>}

\* C14: when both regions are non-empty and disjoint and every surface voxel
\* of each is farther than 5 mm from every surface voxel of the other,
\* surface_dsc is 0.0, hd95 is at least the smallest distance between the
\* two surfaces, and the gate answers FAIL.
C14_FarApartRegionsFail ==
    LET sa == SurfaceOf(surf.a)
        sb == SurfaceOf(surf.b)
        far == \A p \in sa, q \in sb :
                  Dist2(p, q, surf.spacing) > SURFACE_TOL_MM * SURFACE_TOL_MM
    IN  (surf.phase = "gated" /\ surf.a # {} /\ surf.b # {}
            /\ surf.a \cap surf.b = {} /\ far)
        => /\ IsZero(surf.dsc)
           /\ ~IsOne(surf.dsc)
           /\ (surf.hd95.inf \/
                 \E p \in sa, q \in sb :
                    Dist2(p, q, surf.spacing) <= surf.hd95.lo2)
           /\ ~surf.passed

\* C14 witness: the gate has answered FAIL for the last voxel against the
\* first on the coarsest grid, with ssim and psnr inside their targets.
C14_Witness_OppositeCornersFail ==
    /\ surf.phase = "gated"
    /\ surf.a = {LastVoxel} /\ surf.b = {FirstVoxel}
    /\ surf.spacing = <<MaxSpacing, MaxSpacing, MaxSpacing>>
    /\ surf.ssim = Fin(50) /\ surf.psnr = Fin(500)
    /\ ~surf.hd95.inf /\ surf.hd95.lo2 > SURFACE_TOL_MM * SURFACE_TOL_MM
    /\ ~surf.passed

\* C17: two single-voxel regions at physical distance d give hd95 = d, and
\* surface_dsc = 1.0 when d <= 5 mm and 0.0 otherwise; voxels that are
\* neighbours along the third axis with spacing (1, 1, 1) give
\* surface_dsc = 1.0 and hd95 = 1.0.
C17_SingleVoxelsGiveTheirDistance ==
    (surf.phase \in {"done", "gated"}
        /\ Cardinality(surf.a) = 1 /\ Cardinality(surf.b) = 1)
    => LET p  == CHOOSE x \in surf.a : TRUE
           q  == CHOOSE x \in surf.b : TRUE
           dx == surf.spacing[1] * (p[1] - q[1])
           dy == surf.spacing[2] * (p[2] - q[2])
           dz == surf.spacing[3] * (p[3] - q[3])
           d2 == dx * dx + dy * dy + dz * dz
       IN  /\ ~surf.hd95.inf /\ surf.hd95.lo2 = d2 /\ surf.hd95.hi2 = d2
           /\ IF d2 <= 25 THEN IsOne(surf.dsc) ELSE IsZero(surf.dsc)
           /\ (surf.spacing = <<1, 1, 1>> /\ p = <<q[1], q[2], q[3] + 1>>)
                 => (surf.dsc = Ratio(2, 2) /\ HdFloat(surf.hd95) = Fin(100))

\* C17 witness: both metrics have been computed for a voxel and its
\* neighbour along the third axis with spacing (1, 1, 1): 1.0 and 1.0 mm.
C17_Witness_NeighboursAlongZ ==
    /\ surf.phase = "done"
    /\ surf.a = {<<1, 1, 2>>} /\ surf.b = {FirstVoxel}
    /\ surf.spacing = <<1, 1, 1>>
    /\ IsOne(surf.dsc) /\ HdFloat(surf.hd95) = Fin(100)

(***************************************************************************)
(* Claims about the intensity normalizer and the masked PSNR               *)
(***************************************************************************)
Rescaled == norm.phase \in {"rescaled", "psnr", "gated"}

\* the sample of image x at voxel p lies in [0, 1]
InUnit(x, p) == 0 <= x.num[p] /\ x.num[p] <= x.den

\* C11: every sample of both images returned by the normalizer lies in
\* [0, 1], for every raw image, candidate image and foreground mask.
C11_NormalizedImagesInUnitRange ==
    Rescaled => \A p \in Grid : InUnit(norm.raw_s, p) /\ InUnit(norm.def_s, p)

\* C12: when the raw and the candidate image are equal at every voxel of the
\* comparison region, the masked PSNR is +infinity and the gate answers FAIL,
\* whatever surface_dsc, hd95 and ssim are.
C12_IdenticalInRegionFailsTheGate ==
    (norm.phase = "gated"
        /\ \A p \in norm.def_region :
              norm.raw_img.num[p] = norm.defaced_img.num[p])
    => (norm.psnr_def.inf /\ ~norm.passed)

\* C12 witness: the gate has answered for two images that are equal on a
\* non-empty region and differ outside it, with the three other metrics
\* inside their targets.
C12_Witness_EqualInsideDifferentOutside ==
    /\ norm.phase = "gated"
    /\ norm.def_region # {} /\ norm.def_region # Grid
    /\ \A p \in norm.def_region : norm.raw_img.num[p] = norm.defaced_img.num[p]
    /\ \E p \in Grid : norm.raw_img.num[p] # norm.defaced_img.num[p]
    /\ norm.raw_s.den > 1
    /\ norm.dsc = Fin(100) /\ norm.hd95 = Fin(0) /\ norm.ssim = Fin(50)
    /\ ~norm.passed

\* C16: the masked PSNR is +infinity when the region is empty and when the
\* two images are equal on all of it (mean squared error zero); in every
\* other case it is the finite value 10 * log10(peak^2 / MSE), with
\* MSE = sum of squared differences / number of voxels of the region.
C16_PsnrSentinelsAndFormula ==
    norm.phase \in {"psnr", "gated"} =>
        LET R   == norm.def_region
            eq  == \A p \in R : norm.raw_s.num[p] = norm.def_s.num[p]
        IN  /\ norm.psnr_def.inf <=> (R = {} \/ eq)
            /\ ~norm.psnr_def.inf =>
                  /\ norm.psnr_def.num
                        = Cardinality(R) * norm.raw_s.den * norm.raw_s.den
                  /\ norm.psnr_def.den = SumSqDiff(norm.raw_s, norm.def_s, R)
                  /\ norm.psnr_def.den > 0

\* C16 witness: a finite PSNR has been computed on normalized images over a
\* region of more than one voxel, and it is not a whole multiple of 10 dB.
C16_Witness_FinitePsnrOnNormalizedImages ==
    /\ norm.phase = "psnr"
    /\ ~norm.psnr_def.inf
    /\ norm.raw_s.den > 1
    /\ Cardinality(norm.def_region) > 1
    /\ DbFloat(norm.psnr_def).v % 1000 # 0

(***************************************************************************)
(* Claims about the data path of verify_subject                            *)
(***************************************************************************)
Emitted == pipe.stage = "returned" /\ pipe.results # <<>>

\* the stages that have run, and the place of a stage in their order
HasRun(stage) == \E k \in 1..Len(pipe.trace) : pipe.trace[k] = stage
Place(stage) == CHOOSE k \in 1..Len(pipe.trace) : pipe.trace[k] = stage
Before(first, second) ==
    HasRun(second) => (HasRun(first) /\ Place(first) < Place(second))

\* C13: with an empty foreground mask (and the prediction on a grid of the
\* candidate's shape) no later stage raises, both clipped removal masks are
\* empty, and the record that is emitted has voxel counts 0,
\* surface_dsc = 1.0, hd95 = 0.0, ssim = 1.0, psnr = +infinity and
\* passed = false.
C13_EmptyForegroundGivesSentinelRecord ==
    (HasRun("foreground") /\ pipe.FG = {}
        /\ pipe.predFile.grid # "other_shape")
    => /\ pipe.stage # "raised"
       /\ HasRun("roi_clip") => (pipe.PRED_CLIP = {} /\ pipe.TOOL_CLIP = {})
       /\ pipe.stage = "returned" =>
             /\ pipe.results # <<>>
             /\ pipe.results[1].pred_voxels = 0
             /\ pipe.results[1].tool_voxels = 0
             /\ pipe.results[1].surface_dsc = One
             /\ pipe.results[1].hd95_mm = HdVal(0, 0, 0)
             /\ pipe.results[1].ssim_defaced = Fin(100)
             /\ pipe.results[1].psnr_defaced_db.inf
             /\ pipe.results[1].passed = FALSE

\* C13 witness: a record has been emitted in a run whose foreground model
\* failed and whose heuristic found no foreground in a constant candidate
\* volume, with a prediction that covers the whole grid.
C13_Witness_HeuristicFoundNothing ==
    /\ Emitted
    /\ pipe.fgOutcome = "failed" /\ pipe.FG = {}
    /\ pipe.predFile.vox = Grid /\ pipe.keepFile.vox = {}
    /\ pipe.results[1].pred_voxels = 0

\* C15: every emitted record has psnr_defaced_db >= 0 or +infinity.
C15_RecordPsnrNotNegative ==
    Emitted =>
        \/ pipe.results[1].psnr_defaced_db.inf
        \/ pipe.results[1].psnr_defaced_db.num >= pipe.results[1].psnr_defaced_db.den

\* C18: in every run that emits a record the stages ran in the stated
\* order: load, resample the masks, foreground, regions, ROI and clip,
\* surface metrics, normalization, similarity metrics, gate, emit.
C18_StagesInStatedOrder ==
    Emitted =>
        /\ Before("load_prediction", "resample_keep")
        /\ Before("load_candidate", "resample_keep")
        /\ Before("resample_keep", "foreground")
        /\ Before("foreground", "regions")
        /\ Before("regions", "roi_clip")
        /\ Before("roi_clip", "surface_metrics")
        /\ Before("surface_metrics", "normalize")
        /\ Before("normalize", "similarity_metrics")
        /\ Before("similarity_metrics", "gate")
        /\ Before("gate", "emit")

\* C19: every mask that enters the region computations is on the candidate
\* grid: the kept mask and the predicted-removal mask have both been
\* resampled when their file is on another grid, and no run is given up
\* for a mask on another grid.
C19_MasksOnCandidateGrid ==
    /\ HasRun("regions") =>
          (pipe.KEEP.grid = "ref" /\ pipe.PRED_REMOVE.grid = "ref")
    /\ pipe.stage # "raised"

(***************************************************************************)
(* Claims about overlapping runs                                           *)
(***************************************************************************)
\* C20: when runs of verify_subject on one DefacingVerifier overlap, each
\* run writes its collaborator inputs and outputs only under the directory
\* it created itself, and its cleanup removes only that directory, never
\* one that another run is still using.
C20_WorkingStorageIsolated ==
    conc.phase = "running" =>
        \A r \in Runs :
            /\ conc.wrote[r] \subseteq {conc.own[r]}
            /\ conc.removed[r] \subseteq {conc.own[r]}

(***************************************************************************)
(* Claims about the foreground heuristic                                   *)
(***************************************************************************)
\* the centre and its 26 neighbours by face, edge or corner
FullStructure == {o \in (-1 .. 1) \X (-1 .. 1) \X (-1 .. 1) : TRUE}

RECURSIVE GrowFull(_, _)
\* the voxels of m that a path of face, edge or corner neighbours inside m
\* joins to seeds
GrowFull(seeds, m) ==
    LET reached == seeds \cup {p \in m : \E o \in FullStructure : Shift(p, o) \in seeds}
        next    == {p : p \in reached}
    IN  IF next = seeds THEN seeds ELSE GrowFull(next, m)

FullComponents(m) == {GrowFull({p}, m) : p \in m}

\* the voxels of the candidate volume above its 5th percentile
AboveThreshold(img) ==
    {p \in Grid : 100 * img.num[p]
                    > percentile({<<q, img.num[q]>> : q \in Grid}, 5)}

HeuristicRan == HasRun("foreground") /\ pipe.fgOutcome = "failed"

\* C21: the foreground heuristic returns the empty mask when no voxel is
\* above the threshold, and otherwise one component of the above-threshold
\* voxels under full connectivity (face, edge or corner), a largest one by
\* voxel count, with its enclosed holes filled.
C21_HeuristicKeepsLargestFullComponent ==
    HeuristicRan =>
        LET m == AboveThreshold(pipe.defaced_file)
        IN  IF m = {} THEN pipe.FG = {}
            ELSE \E c \in FullComponents(m) :
                    /\ \A d \in FullComponents(m) : Cardinality(c) >= Cardinality(d)
                    /\ pipe.FG = binary_fill_holes(c)

(***************************************************************************)
(* Claims about the surface metrics                                        *)
(***************************************************************************)
SurfacesTaken == surf.phase \in {"dsc", "done", "gated"}

\* C22: the surface set of a mask (the mask XOR its one-step face-connected
\* erosion, as surface_dsc and hd95_dt take it) is empty if and only if the
\* mask is empty or fills the whole grid.
C22_SurfaceEmptyIffEmptyOrFull ==
    SurfacesTaken =>
        /\ (SurfaceOf(surf.a) = {}) <=> (surf.a = {} \/ surf.a = Grid)
        /\ (SurfaceOf(surf.b) = {}) <=> (surf.b = {} \/ surf.b = Grid)

(***************************************************************************)
(* Claims about the ROI builder                                            *)
(***************************************************************************)
Abs(n) == IF n < 0 THEN -n ELSE n

\* the number of face steps between two voxels
Steps(p, q) == Abs(p[1] - q[1]) + Abs(p[2] - q[2]) + Abs(p[3] - q[3])

\* the maximum over the three axes of max(1, ceil(margin / spacing[axis]))
MarginIterations(spacing, margin) ==
    Max2(Max2(1, CeilDiv(margin, spacing[1])),
         Max2(Max2(1, CeilDiv(margin, spacing[2])),
              Max2(1, CeilDiv(margin, spacing[3]))))

\* the voxel n steps up axis k from p
Along(p, k, n) == [p EXCEPT ![k] = @ + n]

FinestSpacing(spacing) == Min2(spacing[1], Min2(spacing[2], spacing[3]))
CoarsestSpacing(spacing) == Max2(spacing[1], Max2(spacing[2], spacing[3]))

RoiDone == roi.phase = "done"

\* the ROI is the anchor grown by exactly MarginIterations face steps
RoiIsAnchorGrownByMaxCount ==
    LET n == MarginIterations(roi.spacing, roi.margin)
    IN  roi.ROI = {q \in Grid : \E p \in roi.anchor : Steps(p, q) <= n}

\* along every axis the ROI holds every voxel within the margin of the anchor
RoiCoversMargin ==
    \A p \in roi.anchor, k \in 1..3, q \in Grid :
        ((\A j \in (1..3) \ {k} : q[j] = p[j])
            /\ roi.spacing[k] * Abs(q[k] - p[k]) <= roi.margin)
        => q \in roi.ROI

\* on axis k the ROI goes further than the margin: the last voxel it
\* reaches up the axis from an anchor voxel, where the array holds it, lies
\* more than the margin away
RoiOvershoots(k) ==
    LET n == MarginIterations(roi.spacing, roi.margin)
    IN  \A p \in roi.anchor :
            Along(p, k, n) \in Grid =>
                /\ Along(p, k, n) \in roi.ROI
                /\ n * roi.spacing[k] > roi.margin

\* C23 as stated: the ROI is the anchor dilated with the face-connected
\* structure by the maximum over the axes of max(1, ceil(margin / spacing)),
\* it reaches at least the margin along every axis, and more than the margin
\* on every axis finer than the coarsest one.
C23_Stated_FinerAxesOvershoot ==
    RoiDone =>
        /\ RoiIsAnchorGrownByMaxCount
        /\ RoiCoversMargin
        /\ \A k \in 1..3 :
              roi.spacing[k] < CoarsestSpacing(roi.spacing) => RoiOvershoots(k)

\* C23: the ROI is the anchor dilated with the face-connected structure by
\* the maximum over the axes of max(1, ceil(margin / spacing)), it reaches
\* at least the margin along every axis, and more than the margin on every
\* axis coarser than the finest one; on the finest axis it reaches
\* max(1, ceil(margin / spacing)) voxels, which is the margin itself when
\* the spacing divides a positive margin.
C23_CoarserAxesOvershoot ==
    RoiDone =>
        LET n == MarginIterations(roi.spacing, roi.margin)
        IN  /\ RoiIsAnchorGrownByMaxCount
            /\ RoiCoversMargin
            /\ \A k \in 1..3 :
                  /\ roi.spacing[k] > FinestSpacing(roi.spacing) => RoiOvershoots(k)
                  /\ roi.spacing[k] = FinestSpacing(roi.spacing) =>
                        /\ n = Max2(1, CeilDiv(roi.margin, roi.spacing[k]))
                        /\ n * roi.spacing[k] >= roi.margin
                        /\ (roi.margin > 0 /\ roi.margin % roi.spacing[k] = 0)
                              => n * roi.spacing[k] = roi.margin

\* C23 witness: the ROI of the first voxel alone with spacing (1, 1, 2) and
\* margin 2: two steps along every axis, which is the margin itself on the
\* two fine axes and twice the margin on the coarse one.
C23_Witness_FineAxisReachesMarginExactly ==
    /\ RoiDone
    /\ roi.anchor = {FirstVoxel}
    /\ roi.spacing = <<1, 1, 2>> /\ roi.margin = 2
    /\ <<3, 1, 1>> \in roi.ROI /\ <<1, 1, 3>> \in roi.ROI
    /\ roi.ROI # Grid

(***************************************************************************)
(* Claims about the normalizer's rule                                      *)
(***************************************************************************)
LeastOf(S) == CHOOSE v \in S : \A w \in S : v <= w
GreatestOf(S) == CHOOSE v \in S : \A w \in S : v >= w

\* C24: the normalizer takes (lo, hi) as the 1st and 99th percentile of the
\* raw samples inside the foreground mask (of the whole raw image when the
\* mask is empty), takes the least and the greatest of the same samples
\* instead when hi <= lo, returns both images unchanged with scale 1.0 when
\* hi <= lo still, and otherwise returns clip((x - lo) / (hi - lo), 0, 1)
\* for both the raw and the candidate image with scale 1.0; its inputs are
\* left as they were.
C24_NormalizerRule ==
    [][(norm.phase = "input" /\ norm'.phase = "rescaled") =>
          LET raw     == norm.raw_img
              defaced == norm.defaced_img
              region  == IF norm.FG = {} THEN Grid ELSE norm.FG
              samples == {raw.num[p] : p \in region}
              p1      == percentile({<<p, raw.num[p]>> : p \in region}, 1)
              p99     == percentile({<<p, raw.num[p]>> : p \in region}, 99)
              lo      == IF p99 > p1 THEN p1 ELSE 100 * LeastOf(samples)
              hi      == IF p99 > p1 THEN p99 ELSE 100 * GreatestOf(samples)
              clipped(x, p) == Max2(0, Min2(hi - lo, 100 * x.num[p] - lo))
          IN  /\ norm'.raw_img = raw
              /\ norm'.defaced_img = defaced
              /\ norm'.FG = norm.FG
              /\ norm'.peak = 1
              /\ IF hi <= lo
                   THEN norm'.raw_s = raw /\ norm'.def_s = defaced
                   ELSE /\ norm'.raw_s.den > 0 /\ norm'.def_s.den > 0
                        /\ \A p \in Grid :
                              /\ norm'.raw_s.num[p] * (hi - lo)
                                    = clipped(raw, p) * norm'.raw_s.den
                              /\ norm'.def_s.num[p] * (hi - lo)
                                    = clipped(defaced, p) * norm'.def_s.den
      ]_vars

\* C24 witness: the normalizer has run with an empty foreground mask on a
\* raw image whose 1st and 99th percentile are both 1 while its samples
\* range from 0 to MaxIntensity: the least and the greatest sample were
\* taken, and the images came back scaled.
C24_Witness_MinMaxFallbackScales ==
    /\ norm.phase = "rescaled"
    /\ norm.FG = {}
    /\ shape[1] = PercentileSpan
    /\ norm.raw_s.den = 100 * MaxIntensity
    /\ norm.raw_s.num[FirstVoxel] = 0
    /\ norm.raw_s.num[LastVoxel] = norm.raw_s.den
    /\ norm.def_s # norm.defaced_img

(***************************************************************************)
(* Claims about the two similarity metrics                                 *)
(***************************************************************************)
SsimTaken == sim.phase \in {"ssim", "psnr", "alt", "gated"}

\* the region's voxels on slice z, and their number
OnSlice(z) == {p \in sim.mask : p[3] = z}
Coverage(z) == Cardinality(OnSlice(z))

\* the length along axis k of the bounding box of the region on slice z
Extent(z, k) ==
    LET at == {p[k] : p \in OnSlice(z)}
    IN  IF at = {} THEN 0 ELSE GreatestOf(at) - LeastOf(at) + 1

\* the voxels of the bounding box of the region on slice z
Patch(z) ==
    LET rows == {p[1] : p \in OnSlice(z)}
        cols == {p[2] : p \in OnSlice(z)}
    IN  {<<x, y, z>> : x \in LeastOf(rows)..GreatestOf(rows),
                       y \in LeastOf(cols)..GreatestOf(cols)}

FlatOn(img, z) == \A p \in Patch(z), q \in {CHOOSE v \in Patch(z) : TRUE} :
                      img.num[p] = img.num[q]

Contributes(img1, img2, z) ==
    /\ Coverage(z) >= 25
    /\ Min2(Extent(z, 1), Extent(z, 2)) >= 3
    /\ ~FlatOn(img1, z)
    /\ ~FlatOn(img2, z)

\* C25: in the masked SSIM a slice gets a score if and only if the region
\* covers at least 25 of its voxels, the shorter side of the region's
\* bounding box is at least 3 and neither cropped patch is flat; the result
\* is the mean of the scores of these slices, and exactly 1.0 when there is
\* none, on which the gate answers FAIL.
C25_SsimScoresQualifyingSlices ==
    SsimTaken =>
        LET scored == {z \in 1..shape[3] : Contributes(sim.img1, sim.img2, z)}
            same   == {z \in scored :
                          \A p \in Patch(z) : sim.img1.num[p] = sim.img2.num[p]}
            total  == 100 * Cardinality(same)
                        + sim.estimate * Cardinality(scored \ same)
        IN  /\ {c.z : c \in sim.calls} = scored
            /\ Cardinality(sim.calls) = Cardinality(scored)
            /\ scored # {} => sim.ssim = Fin(total \div Cardinality(scored))
            /\ scored = {} => sim.ssim = Fin(100)
            /\ (scored = {} /\ sim.phase = "gated") => ~sim.passed

\* C25 witness: the gate has answered PASS on an SSIM that is the mean of
\* two slices' scores, 1.0 on the slice where the patches are equal and the
\* estimator's answer on the other.
C25_Witness_MeanOfTwoSlices ==
    /\ sim.phase = "gated"
    /\ Cardinality(sim.calls) = 2
    /\ sim.estimate = 30
    /\ sim.ssim = Fin(65)
    /\ sim.passed

\* C26: for every slice on which SSIM is computed, the window size given to
\* the estimator is odd, is 3, 5 or 7, and is at most the shorter side of
\* the cropped patch.
C26_WindowOddSmallWithinPatch ==
    SsimTaken =>
        \A c \in sim.calls :
            /\ c.win_size % 2 = 1
            /\ c.win_size \in {3, 5, 7}
            /\ c.win_size <= Min2(Extent(c.z, 1), Extent(c.z, 2))

\* C26 witness: SSIM has been computed on a patch whose shorter side is 8,
\* with the window 7, and on a patch whose shorter side is 4, with the
\* window 3.
C26_Witness_EvenSidesRoundedDown ==
    /\ SsimTaken
    /\ \E c \in sim.calls :
          c.win_size = 7 /\ Min2(Extent(c.z, 1), Extent(c.z, 2)) = 8
    /\ \E c \in sim.calls :
          c.win_size = 3 /\ Min2(Extent(c.z, 1), Extent(c.z, 2)) = 4

\* C27: two image pairs that have the same samples at every voxel of the
\* region give the same masked PSNR and the same masked SSIM, with the
\* same slices skipped.
C27_SimilarityReadsOnlyTheRegion ==
    (sim.phase \in {"alt", "gated"}
        /\ \A p \in sim.mask : sim.alt2.num[p] = sim.img2.num[p])
    => /\ sim.alt_psnr = sim.psnr
       /\ sim.alt_ssim = sim.ssim
       /\ {c.z : c \in sim.alt_calls} = {c.z : c \in sim.calls}

(***************************************************************************)
(* Claims about the clipped regions and the verdict                        *)
(***************************************************************************)
\* C28: the tool-removed region (foreground minus kept) lies inside the
\* foreground and inside the ROI, so clipping leaves it as it is; and the
\* clipped predicted mask is the predicted mask intersected with the
\* foreground, the ROI taking nothing away.
C28_ClippingKeepsToolRemoved ==
    HasRun("roi_clip") =>
        /\ pipe.TOOL_REMOVE \subseteq pipe.FG
        /\ pipe.TOOL_REMOVE \subseteq pipe.ROI
        /\ pipe.TOOL_CLIP = pipe.TOOL_REMOVE
        /\ pipe.PRED_REMOVE.vox \subseteq pipe.ROI
        /\ pipe.PRED_CLIP = pipe.PRED_REMOVE.vox \cap pipe.FG

\* C28 witness: the regions have been clipped in a run whose ROI is smaller
\* than the array, whose tool-removed region is not empty and whose
\* predicted mask has a voxel outside the foreground.
C28_Witness_RoiSmallerThanArray ==
    /\ HasRun("roi_clip")
    /\ pipe.ROI # Grid
    /\ pipe.TOOL_REMOVE # {}
    /\ pipe.PRED_REMOVE.vox # {}
    /\ pipe.PRED_CLIP # pipe.PRED_REMOVE.vox

\* C29: a record says PASS only when both clipped removal masks are not
\* empty and the raw and the candidate image differ at some voxel of the
\* tool-removed region; every record with pred_voxels = 0 or
\* tool_voxels = 0 says FAIL.
C29_PassNeedsRegionsAndADifference ==
    Emitted =>
        /\ pipe.results[1].passed =>
              /\ pipe.results[1].pred_voxels > 0
              /\ pipe.results[1].tool_voxels > 0
              /\ pipe.PRED_CLIP # {}
              /\ pipe.TOOL_CLIP # {}
              /\ \E p \in pipe.TOOL_REMOVE :
                    pipe.raw_file.num[p] # pipe.defaced_file.num[p]
        /\ (pipe.results[1].pred_voxels = 0 \/ pipe.results[1].tool_voxels = 0)
              => ~pipe.results[1].passed

\* C29 witness: a record that says PASS has been emitted.
C29_Witness_PassEmitted ==
    /\ Emitted
    /\ pipe.results[1].passed
    /\ pipe.results[1].pred_voxels > 0
    /\ pipe.results[1].tool_voxels > 0

\* C30: both surface metrics give the same value when their two regions
\* change places, surface_dsc lies in [0, 1] and hd95 is not negative
\* (+infinity included), for all masks and spacings.
C30_SurfaceMetricsSymmetricAndBounded ==
    surf.phase = "both" =>
        /\ surf.dsc = surf.dsc_ba
        /\ surf.hd95 = surf.hd95_ba
        /\ 0 <= surf.dsc.num /\ surf.dsc.num <= surf.dsc.den /\ surf.dsc.den > 0
        /\ ~surf.hd95.inf =>
              /\ surf.hd95.lo2 >= 0 /\ surf.hd95.hi2 >= 0
              /\ surf.hd95.fnum \in 0..99
              /\ HdFloat(surf.hd95).v >= 0

\* C30 witness: both metrics have been computed both ways round on two
\* different non-empty regions of different sizes, with a surface_dsc
\* strictly between 0 and 1 and a finite hd95 above 0.
C30_Witness_UnequalRegionsPartialOverlap ==
    /\ surf.phase = "both"
    /\ surf.a # {} /\ surf.b # {}
    /\ Cardinality(surf.a) # Cardinality(surf.b)
    /\ 0 < surf.dsc.num /\ surf.dsc.num < surf.dsc.den
    /\ ~surf.hd95.inf /\ surf.hd95.hi2 > 0
====
